---- MODULE Spec2Model ----
(***************************************************************************)
(* Matching and ranking engine of ai-resume-linkedin-analyzer:             *)
(* JobMatcher (src/matching/job_matcher.py), RankingAlgorithm              *)
(* (src/matching/ranking_algorithm.py), EmbeddingGenerator and             *)
(* SimilarityScorer, VectorStore (src/matching/vector_store.py); Encoder   *)
(* and faiss_index of ai_resume_analyzer/embeddings.                       *)
(*                                                                         *)
(* Numbers.  Scores in [0,1] are held as integers in units of 1/Unit, and  *)
(* scores on the 0-100 scale as integers in units of 1/Unit of a point     *)
(* (100 points = 100 * Unit).  Weights are held in hundredths and          *)
(* similarity_threshold in units of 1/Unit.  Every input of the model lies *)
(* on that grid, so the sums and products below are the exact real values  *)
(* of the code's expressions.  SpecFloat computes the same scores as the   *)
(* code's floats do, in binary64 with round-to-nearest-even.               *)
(* Strings are sequences of ASCII codes.                                   *)
(***************************************************************************)
EXTENDS Integers, Sequences, FiniteSets, TLC

VARIABLES
    \* SpecSkills: the skill functions on their own
    sk_in,              \* the arguments (resume_skills, required_skills)
    sk_out,             \* what the three skill functions returned
    \* SpecRank: RankingAlgorithm on its own
    rk_matches,         \* the MatchResult objects handed to rank_matches
    rk_weights,         \* the custom_weights argument
    rk_ranked,          \* the list rank_matches returned
    rk_pc,              \* "call" before the call, "returned" after it
    rk_args,            \* the k and threshold handed to get_top_k
    rk_top,             \* the list get_top_k returned
    \* SpecFloat: one resume-job pair scored and ranked in binary64
    fl_in,              \* the resume, the job, the weights, the API's answers
    fl_match,           \* the MatchResult (its scores and confidence_level)
    fl_pc,              \* "call", "scored" after _calculate_match,
                        \* "ranked" after rank_matches
    \* SpecScorers: the experience and education scorers on their own
    sc_in,              \* which scorer, the resume and the job
    sc_out,             \* the score returned
    \* SpecEncoder: Encoder instances and what they have encoded
    en_st,              \* whether the SentenceTransformer model is loaded
    en_encoders,        \* the Encoder instances: their _tfidf
    en_seen,            \* every (text, vector) that an encode call returned
    en_calls,           \* the number of encode calls made
    \* SpecStore: a VectorStore, or an index object of faiss_index, and the
    \* files of its path
    st_backend,         \* "VectorStore", or faiss_index with or without FAISS
    st_tie,             \* how the index orders hits at equal distance
    st_index,           \* self.index, index_obj["index"] or ["emb"]
    st_metadata,        \* self.metadata, index_obj["ids"]
    st_dimension,       \* self.dimension
    st_files,           \* the index, .emb.npy and metadata file
    st_saved,           \* what save or build_index last wrote to the files
    st_op,              \* the last call and how it ended
    st_hits,            \* what the last search returned
    \* Spec: one invocation of JobMatcher.match_resume_to_jobs
    resume,             \* the resume argument
    jobs,               \* the jobs argument
    config,             \* self.config
    top_k,              \* the top_k argument, then the local top_k
    pc,                 \* the stage the invocation is at
    resume_embedding,   \* the local resume_embedding
    job_embeddings,     \* the local job_embeddings
    failed_calls,       \* the embedding calls that failed: 0 the resume's,
                        \* i the i-th job's
    idx,                \* the scoring loop's idx
    matches,            \* the local matches
    ranked_matches,     \* the local ranked_matches
    filtered_matches,   \* the local filtered_matches
    result,             \* the list returned
    ss_in,              \* the raw_text and jd_text of a simple_score call
    ss_out,             \* what simple_score or /analyze gave
    tw_matcher,         \* the attributes of the JobMatcher two calls share
    tw_resume,          \* the resume argument of each of the two calls
    tw_jobs,            \* the jobs argument of both calls
    tw_order,           \* the order in which this process iterates each set
    tw_clock,           \* the last value datetime.now() gave
    tw_failed,          \* how many embedding calls have failed
    tw_inv              \* the locals of each of the two calls

skvars == <<sk_in, sk_out>>
rkvars == <<rk_matches, rk_weights, rk_ranked, rk_pc, rk_args, rk_top>>
mvars == <<resume, jobs, config, top_k, pc, resume_embedding, job_embeddings,
           failed_calls, idx, matches, ranked_matches, filtered_matches,
           result>>
flvars == <<fl_in, fl_match, fl_pc>>
scvars == <<sc_in, sc_out>>
\* The variables of the specifications added after the first four
envars == <<en_st, en_encoders, en_seen, en_calls>>
corevars == <<skvars, rkvars, flvars, mvars>>
stvars == <<st_backend, st_tie, st_index, st_metadata, st_dimension, st_files, st_saved,
            st_op, st_hits>>
ssvars == <<ss_in, ss_out>>
\* What the later specifications but SpecSimple leave alone besides each
\* other's variables
twvars == <<tw_matcher, tw_resume, tw_jobs, tw_order, tw_clock, tw_failed,
            tw_inv>>
othervars == <<corevars, ssvars, twvars>>
xvars == <<scvars, envars, stvars, ssvars, twvars>>
vars == <<skvars, rkvars, flvars, mvars, xvars>>

----------------------------------------------------------------------------
(* Bounds of the model *)

MaxResumeSkills == 2
MaxRequiredSkills == 3
MaxJobs == 3
MaxTopK == 2
MaxMatches == 3
MaxFailedCalls == 1
MaxExperience == 3
MaxYears == 8
MaxEducation == 2
MaxEncoders == 2
MaxBatch == 2
MaxEncodes == 3
MaxStored == 2
MaxK == 2
MaxTextLen == 3
MaxTwoJobs == 2
MaxClock == 1
MaxUuid == 2

(* One unit of a [0,1] score: 1/120, the least common denominator of the   *)
(* values the scorers produce on the model's inputs (halves of 1/n for     *)
(* n <= 6 distinct required skills, tenths, fifths).                       *)
Unit == 12 * 10

Min(a, b) == IF a <= b THEN a ELSE b
Max(a, b) == IF a >= b THEN a ELSE b

Range(s) == {s[i] : i \in 1..Len(s)}

SeqsUpTo(S, n) == UNION {[1..k -> S] : k \in 0..n}

(* The orders in which a Python set of strings may be iterated: string     *)
(* hashing is randomised per process, so any order of the elements.        *)
RECURSIVE SetOrders(_)
SetOrders(S) ==
    IF S = {} THEN {<<>>}
    ELSE UNION {{<<x>> \o rest : rest \in SetOrders(S \ {x})} : x \in S}

----------------------------------------------------------------------------
(* Strings *)

\* str.lower() on one ASCII character
Lower(c) == IF c >= 65 /\ c <= 90 THEN c + 32 ELSE c

\* str.lower()
StrLower(s) == [i \in 1..Len(s) |-> Lower(s[i])]

\* a in b   (Python substring test; the empty string is in every string)
IsSubstring(a, b) ==
    \E i \in 0..(Len(b) - Len(a)) : \A j \in 1..Len(a) : b[i + j] = a[j]

\* The skill names of the model
Python  == <<80, 121, 116, 104, 111, 110>>
python  == <<112, 121, 116, 104, 111, 110>>
Py      == <<80, 121>>
AWS     == <<65, 87, 83>>
Django  == <<68, 106, 97, 110, 103, 111>>

SkillNames == {Python, python, Py, AWS, Django}

\* {s.lower() for s in skills}
LowerSet(skills) == {StrLower(skills[i]) : i \in 1..Len(skills)}

\* Keys of {s.lower(): s for s in skills} in the dict's (insertion) order:
\* the order of first occurrence.
RECURSIVE DictKeys(_)
DictKeys(skills) ==
    IF skills = <<>> THEN <<>>
    ELSE LET front == SubSeq(skills, 1, Len(skills) - 1)
             k == StrLower(skills[Len(skills)])
         IN  IF k \in LowerSet(front) THEN DictKeys(front)
             ELSE Append(DictKeys(front), k)

\* {s.lower(): s for s in skills}[k]: a later spelling overwrites an earlier.
DictGet(skills, k) ==
    LET last == CHOOSE i \in 1..Len(skills) :
                    /\ StrLower(skills[i]) = k
                    /\ \A j \in (i + 1)..Len(skills) : StrLower(skills[j]) # k
    IN  skills[last]

\* req_skill in res_skill or res_skill in req_skill, for some resume skill
HasPartial(req_lower, resume_lower_set) ==
    \E res \in resume_lower_set :
        IsSubstring(req_lower, res) \/ IsSubstring(res, req_lower)

----------------------------------------------------------------------------
(* JobMatcher: the skill functions *)

\* Counts are held doubled, so that a partial match (partial_matches += 0.5)
\* counts 1 and an exact match 2.

\* _calculate_skills_match, dividing by the required LIST's length
CalculateSkillsMatchByList(resume_skills, required_skills) ==
    IF required_skills = <<>> THEN Unit
    ELSE IF resume_skills = <<>> THEN 0
    ELSE
        LET resume_skills_lower == LowerSet(resume_skills)
            required_skills_lower == LowerSet(required_skills)
            exact_matches == resume_skills_lower \cap required_skills_lower
            partial == {r \in required_skills_lower \ exact_matches :
                            HasPartial(r, resume_skills_lower)}
            total_twice == 2 * Cardinality(exact_matches)
                           + Cardinality(partial)
            match_ratio == (Unit * total_twice) \div (2 * Len(required_skills))
        IN  Min(match_ratio, Unit)

\* _calculate_skills_match: the score in units of 1/Unit
CalculateSkillsMatch(resume_skills, required_skills) ==
    IF required_skills = <<>> THEN Unit
    ELSE IF resume_skills = <<>> THEN 0
    ELSE
        LET resume_skills_lower == LowerSet(resume_skills)
            required_skills_lower == LowerSet(required_skills)
            exact_matches == resume_skills_lower \cap required_skills_lower
            partial == {r \in required_skills_lower \ exact_matches :
                            HasPartial(r, resume_skills_lower)}
            total_twice == 2 * Cardinality(exact_matches)
                           + Cardinality(partial)
            match_ratio == (Unit * total_twice)
                           \div (2 * Cardinality(required_skills_lower))
        IN  Min(match_ratio, Unit)

\* The required skills (lower-cased) that _get_matched_skills finds in the
\* resume
MatchedKeys(resume_skills, required_skills) ==
    LowerSet(required_skills) \cap LowerSet(resume_skills)

\* _get_matched_skills.  The loop runs over the set required_skills_lower;
\* hit_order is the order in which that iteration meets the keys of
\* MatchedKeys.
GetMatchedSkills(resume_skills, required_skills, hit_order) ==
    [i \in 1..Len(hit_order) |-> DictGet(resume_skills, hit_order[i])]

\* _identify_missing_skills comparing the spellings as written and without
\* the partial-match test
IdentifyMissingSkillsCaseSensitive(resume_skills, required_skills) ==
    LET keys == DictKeys(required_skills)
        Missing(k) == DictGet(required_skills, k) \notin Range(resume_skills)
        miss == SelectSeq(keys, Missing)
    IN  [i \in 1..Len(miss) |-> DictGet(required_skills, miss[i])]

\* _identify_missing_skills
IdentifyMissingSkills(resume_skills, required_skills) ==
    LET resume_skills_lower == LowerSet(resume_skills)
        keys == DictKeys(required_skills)
        Missing(k) == /\ k \notin resume_skills_lower
                      /\ ~HasPartial(k, resume_skills_lower)
        miss == SelectSeq(keys, Missing)
    IN  [i \in 1..Len(miss) |-> DictGet(required_skills, miss[i])]

----------------------------------------------------------------------------
(* EmbeddingGenerator and SimilarityScorer.  Vectors are pairs of          *)
(* integers (the code's have 1536 components) with integer norms.          *)

\* np.zeros(self.dimension)
Zeros == <<0, 0>>

\* generate_embedding without the test for an empty text
GenerateEmbeddingOfAnyText(text_empty, model_vec, api_ok) ==
    IF api_ok THEN model_vec ELSE Zeros

\* generate_embedding: text_empty is `not text or not text.strip()`,
\* model_vec what the embedding model answers for the text, api_ok whether
\* the call to it succeeds.  A failed call is caught and answered by zeros.
GenerateEmbedding(text_empty, model_vec, api_ok) ==
    IF text_empty THEN Zeros
    ELSE IF api_ok THEN model_vec
    ELSE Zeros

Dot(v1, v2) == v1[1] * v2[1] + v1[2] * v2[2]

\* np.linalg.norm
Norm(v) == CHOOSE n \in 0..(Dot(v, v)) : n * n = Dot(v, v)

\* SimilarityScorer.cosine_similarity, in units of 1/Unit
CosineSimilarity(vec1, vec2) ==
    IF Norm(vec1) = 0 \/ Norm(vec2) = 0 THEN 0
    ELSE LET similarity == (Unit * Dot(vec1, vec2))
                           \div (Norm(vec1) * Norm(vec2))
         IN  Max(0, Min(Unit, similarity))

----------------------------------------------------------------------------
(* JobMatcher: experience, education, location, confidence *)

\* _parse_experience_years: a requirement text is held as the number its
\* first "<n> years" gives, 0 when it names none
ParseExperienceYears(exp_required) == exp_required.years

\* _calculate_experience_match; resume.experience is the number of entries
CalculateExperienceMatch(res, job) ==
    IF ~job.experience_required.present THEN Unit
    ELSE
        LET resume_years == res.experience * 2
            required_years == ParseExperienceYears(job.experience_required)
        IN  IF resume_years >= required_years THEN Unit
            ELSE IF 10 * resume_years >= 7 * required_years THEN (8 * Unit) \div 10
            ELSE IF 2 * resume_years >= required_years THEN (6 * Unit) \div 10
            ELSE (4 * Unit) \div 10

\* degree_levels, in the dict's order
DegreeKeys == <<"phd", "doctorate", "master", "mba", "bachelor", "bachelors",
                "associate", "high school">>

DegreeLevel(key) ==
    CASE key \in {"phd", "doctorate"} -> 5
      [] key \in {"master", "mba"} -> 4
      [] key \in {"bachelor", "bachelors"} -> 3
      [] key = "associate" -> 2
      [] key = "high school" -> 1

\* A degree text is held as the set of degree_levels keys that occur in its
\* lower-cased form.
\* resume_level: the highest level of any key in any education entry
ResumeLevel(education) ==
    LET levels == {DegreeLevel(k) :
                    k \in UNION {education[i] : i \in 1..Len(education)}}
    IN  IF levels = {} THEN 0
        ELSE CHOOSE l \in levels : \A m \in levels : m <= l

\* required_level without the break: the level of the last key, in dict
\* order, in the text
RequiredLevelNoBreak(keys) ==
    IF \A i \in 1..Len(DegreeKeys) : DegreeKeys[i] \notin keys THEN 0
    ELSE LET last == CHOOSE i \in 1..Len(DegreeKeys) :
                        /\ DegreeKeys[i] \in keys
                        /\ \A j \in (i + 1)..Len(DegreeKeys) :
                            DegreeKeys[j] \notin keys
         IN  DegreeLevel(DegreeKeys[last])

\* required_level: the level of the first key, in dict order, in the text
RequiredLevel(keys) ==
    IF \A i \in 1..Len(DegreeKeys) : DegreeKeys[i] \notin keys THEN 0
    ELSE LET first == CHOOSE i \in 1..Len(DegreeKeys) :
                        /\ DegreeKeys[i] \in keys
                        /\ \A j \in 1..(i - 1) : DegreeKeys[j] \notin keys
         IN  DegreeLevel(DegreeKeys[first])

\* job.education_required.lower() raises when the value is not a string;
\* the call is reached only past the two early returns
EducationMatchRaises(res, job) ==
    /\ job.education_required.kind = "bad"
    /\ res.education # <<>>

\* _calculate_education_match (where it does not raise)
CalculateEducationMatch(res, job) ==
    IF job.education_required.kind = "absent" THEN Unit
    ELSE IF res.education = <<>> THEN Unit \div 2
    ELSE
        LET resume_level == ResumeLevel(res.education)
            required_level == RequiredLevel(job.education_required.keys)
        IN  IF resume_level >= required_level THEN Unit
            ELSE IF resume_level >= required_level - 1 THEN (7 * Unit) \div 10
            ELSE Unit \div 2

\* _calculate_location_match
CalculateLocationMatch(res, job) ==
    IF job.remote THEN Unit ELSE (8 * Unit) \div 10

\* _calculate_confidence; overall_score in units of 1/Unit of a point
CalculateConfidence(overall_score) ==
    IF overall_score >= 85 * Unit THEN "Very High"
    ELSE IF overall_score >= 75 * Unit THEN "High"
    ELSE IF overall_score >= 60 * Unit THEN "Medium"
    ELSE "Low"

----------------------------------------------------------------------------
(* RankingAlgorithm.  A weight map is a record of hundredths; a dict       *)
(* that lacks a key is a record without that field, None and {} the empty  *)
(* record <<>>.                                                            *)

\* RankingWeights(): self.default_weights
DefaultWeights == [skills |-> 35, experience |-> 25, education |-> 15,
                   semantic |-> 25]

\* custom_weights.get(key, default)
DictGetOr(dict, key, default) ==
    IF key \in DOMAIN dict THEN dict[key] ELSE default

\* _get_weights
GetWeights(custom_weights) ==
    IF DOMAIN custom_weights = {} THEN DefaultWeights
    ELSE [skills |-> DictGetOr(custom_weights, "skills", DefaultWeights.skills),
          experience |-> DictGetOr(custom_weights, "experience",
                                   DefaultWeights.experience),
          education |-> DictGetOr(custom_weights, "education",
                                  DefaultWeights.education),
          semantic |-> DictGetOr(custom_weights, "semantic",
                                 DefaultWeights.semantic)]

\* The weighted sum with the location score as a fifth term
WeightedSumWithLocation(match, weights) ==
    (match.skills_match_score * weights.skills
     + match.experience_match_score * weights.experience
     + match.education_match_score * weights.education
     + match.semantic_similarity_score * weights.semantic
     + match.location_match_score * 10) \div 100

\* The weighted sum of _calculate_weighted_score, before the clamp
WeightedSum(match, weights) ==
    (match.skills_match_score * weights.skills
     + match.experience_match_score * weights.experience
     + match.education_match_score * weights.education
     + match.semantic_similarity_score * weights.semantic) \div 100

\* _calculate_weighted_score without max(0.0, min(100.0, score))
CalculateWeightedScoreUnclamped(match, weights) == WeightedSum(match, weights)

\* _calculate_weighted_score leaving the semantic term out
CalculateWeightedScoreNoSemantic(match, weights) ==
    LET score == (match.skills_match_score * weights.skills
                  + match.experience_match_score * weights.experience
                  + match.education_match_score * weights.education) \div 100
    IN  Max(0, Min(100 * Unit, score))

\* _calculate_weighted_score
CalculateWeightedScore(match, weights) ==
    LET score == WeightedSum(match, weights)
    IN  Max(0, Min(100 * Unit, score))

\* sorted(..., key=overall_score, reverse=True) builds its result by
\* inserting each element behind those whose key is not smaller: Python's
\* sort is stable, also under reverse=True.
RECURSIVE InsertByScore(_, _)
InsertByScore(sorted, m) ==
    IF sorted = <<>> THEN <<m>>
    ELSE IF Head(sorted).overall_score >= m.overall_score
         THEN <<Head(sorted)>> \o InsertByScore(Tail(sorted), m)
         ELSE <<m>> \o sorted

\* sorted() that drops an element whose key equals one already placed
RECURSIVE SortedByScoreDedup(_)
SortedByScoreDedup(ms) ==
    IF ms = <<>> THEN <<>>
    ELSE LET front == SortedByScoreDedup(SubSeq(ms, 1, Len(ms) - 1))
             m == ms[Len(ms)]
         IN  IF \E i \in 1..Len(front) : front[i].overall_score = m.overall_score
             THEN front
             ELSE InsertByScore(front, m)

\* sorted(matches, key=lambda x: x.overall_score, reverse=True)
RECURSIVE SortedByScore(_)
SortedByScore(ms) ==
    IF ms = <<>> THEN <<>>
    ELSE InsertByScore(SortedByScore(SubSeq(ms, 1, Len(ms) - 1)),
                       ms[Len(ms)])

\* The loop of rank_matches: match.overall_score = _calculate_weighted_score
Rescored(ms, custom_weights) ==
    [i \in 1..Len(ms) |->
        [ms[i] EXCEPT !.overall_score =
            CalculateWeightedScore(ms[i], GetWeights(custom_weights))]]

\* rank_matches: the list it returns (the matches themselves are rescored
\* in place)
RankMatches(ms, custom_weights) ==
    IF ms = <<>> THEN <<>>
    ELSE SortedByScore(Rescored(ms, custom_weights))

----------------------------------------------------------------------------
(* JobMatcher._calculate_match and the data it works on *)

WeightKeys == {"semantic", "skills", "experience", "education"}

\* self.config.weights[...] raises KeyError for a key the dict lacks
WeightLookupRaises(weights) == ~(WeightKeys \subseteq DOMAIN weights)

\* Whether _calculate_match raises (match_resume_to_jobs catches it)
CalculateMatchRaises(res, job, weights) ==
    \/ EducationMatchRaises(res, job)
    \/ WeightLookupRaises(weights)

\* _calculate_match (where it does not raise).  order is the order in which
\* _get_matched_skills meets the matched skills.
\* The Job object of the MatchResult is held as its job_id.
CalculateMatch(res, res_embedding, job, job_embedding, weights, order) ==
    LET semantic_score == CosineSimilarity(res_embedding, job_embedding)
        skills_score == CalculateSkillsMatch(res.skills, job.required_skills)
        experience_score == CalculateExperienceMatch(res, job)
        education_score == CalculateEducationMatch(res, job)
        location_score == CalculateLocationMatch(res, job)
        overall_score == ((semantic_score * weights.semantic
                           + skills_score * weights.skills
                           + experience_score * weights.experience
                           + education_score * weights.education) * 100)
                         \div 100
    IN  [resume_id |-> res.resume_id,
         job_id |-> job.job_id,
         overall_score |-> overall_score,
         skills_match_score |-> skills_score * 100,
         experience_match_score |-> experience_score * 100,
         education_match_score |-> education_score * 100,
         semantic_similarity_score |-> semantic_score * 100,
         location_match_score |-> location_score * 100,
         matched_skills |-> GetMatchedSkills(res.skills, job.required_skills,
                                             order),
         missing_skills |-> IdentifyMissingSkills(res.skills,
                                                  job.required_skills),
         confidence_level |-> CalculateConfidence(overall_score)]

\* _prepare_resume_for_embedding gives "" when the resume has no summary,
\* skills, experience or education
ResumeTextEmpty(res) ==
    /\ ~res.summary
    /\ res.skills = <<>>
    /\ res.experience = 0
    /\ res.education = <<>>

\* seq[:k]
Slice(seq, k) ==
    IF k >= 0 THEN SubSeq(seq, 1, Min(k, Len(seq)))
    ELSE SubSeq(seq, 1, Max(0, Len(seq) + k))

\* [m for m in ranked if m.overall_score >= similarity_threshold * 100]
\* with > in place of >=
FilterByThresholdStrict(ranked, similarity_threshold) ==
    LET Keep(m) == m.overall_score > similarity_threshold * 100
    IN  SelectSeq(ranked, Keep)

\* [m for m in ranked_matches
\*    if m.overall_score >= self.config.similarity_threshold * 100]
FilterByThreshold(ranked, similarity_threshold) ==
    LET Keep(m) == m.overall_score >= similarity_threshold * 100
    IN  SelectSeq(ranked, Keep)

----------------------------------------------------------------------------
(* The inputs of the model *)

\* Resumes.  experience is the number of experience entries, education the
\* list of degree texts, model_vec the embedding model's answer for the
\* resume's text.
ResumePool ==
    { [resume_id |-> 1, summary |-> TRUE, skills |-> <<Python, AWS>>,
       experience |-> 2, education |-> <<{"bachelor"}>>,
       model_vec |-> <<1, 0>>],
      [resume_id |-> 2, summary |-> FALSE, skills |-> <<>>,
       experience |-> 0, education |-> <<>>,
       model_vec |-> <<1, 0>>] }

NoRequirement == [present |-> FALSE, years |-> 0]
Years(n) == [present |-> TRUE, years |-> n]
NoEducation == [kind |-> "absent", keys |-> {}]
Degree(keys) == [kind |-> "text", keys |-> keys]
\* an education_required that is not a string
BadEducation == [kind |-> "bad", keys |-> {}]

\* Job postings, by job_id.  Against resume 1 and the weights
\* 0.5/0.3/0.1/0.1 jobs 1, 2 and 3 score 90, 73 and 40; job 4 makes
\* _calculate_match raise for a resume that has education entries.
JobPool ==
    <<  [job_id |-> 1, required_skills |-> <<Python, AWS>>,
         experience_required |-> Years(4),
         education_required |-> Degree({"bachelor"}),
         remote |-> FALSE, model_vec |-> <<-1, 0>>],
        [job_id |-> 2, required_skills |-> <<Python, Django>>,
         experience_required |-> NoRequirement,
         education_required |-> NoEducation,
         remote |-> TRUE, model_vec |-> <<4, 3>>],
        [job_id |-> 3, required_skills |-> <<Django>>,
         experience_required |-> Years(5),
         education_required |-> NoEducation,
         remote |-> FALSE, model_vec |-> <<3, 4>>],
        [job_id |-> 4, required_skills |-> <<python>>,
         experience_required |-> Years(0),
         education_required |-> BadEducation,
         remote |-> FALSE, model_vec |-> <<0, 1>>] >>

\* Lists of up to MaxJobs different jobs
JobLists ==
    {[i \in 1..Len(ids) |-> JobPool[ids[i]]] :
        ids \in {s \in SeqsUpTo(1..Len(JobPool), MaxJobs) :
                    \A i, j \in 1..Len(s) : i # j => s[i] # s[j]}}

\* self.config.weights: the default of MatchingConfig, a valid map, one
\* that sums to 0.95, one that sums to 4, one without the key 'semantic'
WeightPool ==
    <<  [skills |-> 35, experience |-> 25, education |-> 15, semantic |-> 25],
        [skills |-> 50, experience |-> 30, education |-> 10, semantic |-> 10],
        [skills |-> 50, experience |-> 30, education |-> 10, semantic |-> 5],
        [skills |-> 100, experience |-> 100, education |-> 100,
         semantic |-> 100],
        [skills |-> 50, experience |-> 30, education |-> 20] >>

\* similarity_threshold, in units of 1/Unit: 0.5, the default 0.7, and 50.0
ThresholdPool == {(5 * Unit) \div 10, (7 * Unit) \div 10, 50 * Unit}

\* MatchingConfig.top_k
DefaultTopK == 10

\* The top_k argument: None is held as 0 (both are false in `top_k or ...`)
TopKArgs == (-1)..MaxTopK

----------------------------------------------------------------------------
(* Spec: JobMatcher.match_resume_to_jobs, stage by stage *)

MainInit ==
    /\ resume \in ResumePool
    /\ jobs \in JobLists
    /\ \E w \in 1..Len(WeightPool) :
        config \in [similarity_threshold : ThresholdPool,
                    top_k : {DefaultTopK},
                    weights : {WeightPool[w]}]
    /\ top_k \in TopKArgs
    /\ pc = "start"
    /\ resume_embedding = Zeros
    /\ job_embeddings = <<>>
    /\ failed_calls = {}
    /\ idx = 0
    /\ matches = <<>>
    /\ ranked_matches = <<>>
    /\ filtered_matches = <<>>
    /\ result = <<>>

\* if not jobs: return []
ReturnEmpty ==
    /\ pc = "start"
    /\ jobs = <<>>
    /\ pc' = "done"
    /\ result' = <<>>
    /\ UNCHANGED <<skvars, rkvars, flvars, xvars>>
    /\ UNCHANGED <<resume, jobs, config, top_k, resume_embedding,
                   job_embeddings, failed_calls, idx, matches,
                   ranked_matches, filtered_matches>>

\* top_k = top_k or self.config.top_k
Start ==
    /\ pc = "start"
    /\ jobs # <<>>
    /\ top_k' = IF top_k # 0 THEN top_k ELSE config.top_k
    /\ pc' = "embed_resume"
    /\ UNCHANGED <<skvars, rkvars, flvars, xvars>>
    /\ UNCHANGED <<resume, jobs, config, resume_embedding, job_embeddings,
                   failed_calls, idx, matches, ranked_matches,
                   filtered_matches, result>>

\* resume_embedding = self._generate_resume_embedding(resume)
EmbedResume ==
    /\ pc = "embed_resume"
    /\ \E api_ok \in BOOLEAN :
        /\ ResumeTextEmpty(resume) => api_ok
        /\ ~api_ok => Cardinality(failed_calls) < MaxFailedCalls
        /\ resume_embedding' = GenerateEmbedding(ResumeTextEmpty(resume),
                                                 resume.model_vec, api_ok)
        /\ failed_calls' = IF api_ok THEN failed_calls
                           ELSE failed_calls \cup {0}
    /\ pc' = "embed_jobs"
    /\ UNCHANGED <<skvars, rkvars, flvars, xvars>>
    /\ UNCHANGED <<resume, jobs, config, top_k, job_embeddings, idx, matches,
                   ranked_matches, filtered_matches, result>>

\* One turn of: for job in jobs: job_embeddings.append(...)
\* (_prepare_job_for_embedding never gives an empty text)
EmbedJob ==
    /\ pc = "embed_jobs"
    /\ LET i == Len(job_embeddings) + 1 IN
        /\ \E api_ok \in BOOLEAN :
            /\ ~api_ok => Cardinality(failed_calls) < MaxFailedCalls
            /\ job_embeddings' =
                 Append(job_embeddings,
                        GenerateEmbedding(FALSE, jobs[i].model_vec, api_ok))
            /\ failed_calls' = IF api_ok THEN failed_calls
                               ELSE failed_calls \cup {i}
        /\ pc' = IF i = Len(jobs) THEN "score" ELSE "embed_jobs"
    /\ UNCHANGED <<skvars, rkvars, flvars, xvars>>
    /\ UNCHANGED <<resume, jobs, config, top_k, resume_embedding, idx,
                   matches, ranked_matches, filtered_matches, result>>

\* One turn of the scoring loop in which _calculate_match returns
ScoreJob ==
    /\ pc = "score"
    /\ LET job == jobs[idx + 1] IN
        /\ ~CalculateMatchRaises(resume, job, config.weights)
        /\ \E order \in SetOrders(MatchedKeys(resume.skills,
                                                job.required_skills)) :
            matches' = Append(matches,
                              CalculateMatch(resume, resume_embedding, job,
                                             job_embeddings[idx + 1],
                                             config.weights, order))
    /\ idx' = idx + 1
    /\ pc' = IF idx + 1 = Len(jobs) THEN "rank" ELSE "score"
    /\ UNCHANGED <<skvars, rkvars, flvars, xvars>>
    /\ UNCHANGED <<resume, jobs, config, top_k, resume_embedding,
                   job_embeddings, failed_calls, ranked_matches,
                   filtered_matches, result>>

\* The scoring loop without the try: the exception of _calculate_match
\* ends the call
ScoreJobErrorAborts ==
    /\ pc = "score"
    /\ CalculateMatchRaises(resume, jobs[idx + 1], config.weights)
    /\ pc' = "done"
    /\ result' = <<>>
    /\ UNCHANGED <<skvars, rkvars, flvars, xvars>>
    /\ UNCHANGED <<resume, jobs, config, top_k, resume_embedding,
                   job_embeddings, failed_calls, idx, matches, ranked_matches,
                   filtered_matches>>

\* One turn of the scoring loop in which _calculate_match raises:
\* except Exception: log and continue
ScoreJobError ==
    /\ pc = "score"
    /\ CalculateMatchRaises(resume, jobs[idx + 1], config.weights)
    /\ idx' = idx + 1
    /\ pc' = IF idx + 1 = Len(jobs) THEN "rank" ELSE "score"
    /\ UNCHANGED <<skvars, rkvars, flvars, xvars>>
    /\ UNCHANGED <<resume, jobs, config, top_k, resume_embedding,
                   job_embeddings, failed_calls, matches, ranked_matches,
                   filtered_matches, result>>

\* The ranking stage handing its list straight to the truncation
RankSkippingFilter ==
    /\ pc = "rank"
    /\ ranked_matches' = RankMatches(matches, config.weights)
    /\ matches' = IF matches = <<>> THEN matches
                  ELSE Rescored(matches, config.weights)
    /\ filtered_matches' = ranked_matches'
    /\ pc' = "truncate"
    /\ UNCHANGED <<skvars, rkvars, flvars, xvars>>
    /\ UNCHANGED <<resume, jobs, config, top_k, resume_embedding,
                   job_embeddings, failed_calls, idx, result>>

\* ranked_matches = self.ranker.rank_matches(matches, self.config.weights)
\* rank_matches rescores the objects of matches before it sorts them, and
\* leaves an empty list alone.
Rank ==
    /\ pc = "rank"
    /\ ranked_matches' = RankMatches(matches, config.weights)
    /\ matches' = IF matches = <<>> THEN matches
                  ELSE Rescored(matches, config.weights)
    /\ pc' = "filter"
    /\ UNCHANGED <<skvars, rkvars, flvars, xvars>>
    /\ UNCHANGED <<resume, jobs, config, top_k, resume_embedding,
                   job_embeddings, failed_calls, idx, filtered_matches,
                   result>>

\* filtered_matches = [m for m in ranked_matches if ...]
Filter ==
    /\ pc = "filter"
    /\ filtered_matches' = FilterByThreshold(ranked_matches,
                                             config.similarity_threshold)
    /\ pc' = "truncate"
    /\ UNCHANGED <<skvars, rkvars, flvars, xvars>>
    /\ UNCHANGED <<resume, jobs, config, top_k, resume_embedding,
                   job_embeddings, failed_calls, idx, matches, ranked_matches,
                   result>>

\* return filtered_matches[:top_k]
Truncate ==
    /\ pc = "truncate"
    /\ result' = Slice(filtered_matches, top_k)
    /\ pc' = "done"
    /\ UNCHANGED <<skvars, rkvars, flvars, xvars>>
    /\ UNCHANGED <<resume, jobs, config, top_k, resume_embedding,
                   job_embeddings, failed_calls, idx, matches, ranked_matches,
                   filtered_matches>>

\* The variables of Spec while another specification runs
MainIdle ==
    /\ resume = CHOOSE r \in ResumePool : r.resume_id = 1
    /\ jobs = <<>>
    /\ config = [similarity_threshold |-> (7 * Unit) \div 10,
                 top_k |-> DefaultTopK, weights |-> WeightPool[1]]
    /\ top_k = 0
    /\ pc = "idle"
    /\ resume_embedding = Zeros
    /\ job_embeddings = <<>>
    /\ failed_calls = {}
    /\ idx = 0
    /\ matches = <<>>
    /\ ranked_matches = <<>>
    /\ filtered_matches = <<>>
    /\ result = <<>>

----------------------------------------------------------------------------
(* SpecSkills: the skill functions applied to every pair of skill lists *)

NoSkillsOut == [called |-> FALSE, score |-> 0, matched |-> <<>>, missing |-> <<>>]

SkillsInit ==
    /\ sk_in \in [resume_skills : SeqsUpTo(SkillNames, MaxResumeSkills),
                  required_skills : SeqsUpTo(SkillNames, MaxRequiredSkills)]
    /\ sk_out = NoSkillsOut

SkillsIdle ==
    /\ sk_in = [resume_skills |-> <<>>, required_skills |-> <<>>]
    /\ sk_out = NoSkillsOut

\* The three calls _calculate_match makes on (resume.skills, job.required_skills)
SkillsCall ==
    /\ ~sk_out.called
    /\ LET score == CalculateSkillsMatch(sk_in.resume_skills,
                                         sk_in.required_skills)
           missing == IdentifyMissingSkills(sk_in.resume_skills,
                                            sk_in.required_skills)
       IN  \E order \in SetOrders(MatchedKeys(sk_in.resume_skills,
                                                sk_in.required_skills)) :
             sk_out' = [called |-> TRUE,
                        score |-> score,
                        matched |-> GetMatchedSkills(sk_in.resume_skills,
                                                     sk_in.required_skills,
                                                     order),
                        missing |-> missing]
    /\ UNCHANGED <<sk_in, rkvars, flvars, mvars, xvars>>

----------------------------------------------------------------------------
(* SpecRank: RankingAlgorithm.rank_matches on lists of MatchResult *)

\* A MatchResult with the given job and sub-scores (in points); the score it
\* carries into rank_matches is the one the default weights give
MatchOf(id, skills, experience, education, semantic) ==
    LET m == [resume_id |-> 1,
              job_id |-> id,
              overall_score |-> 0,
              skills_match_score |-> skills * Unit,
              experience_match_score |-> experience * Unit,
              education_match_score |-> education * Unit,
              semantic_similarity_score |-> semantic * Unit,
              location_match_score |-> 80 * Unit,
              matched_skills |-> <<>>,
              missing_skills |-> <<>>,
              confidence_level |-> "Low"]
        score == CalculateWeightedScore(m, DefaultWeights)
    IN  [m EXCEPT !.overall_score = score,
                  !.confidence_level = CalculateConfidence(score)]

\* MatchResults, by job_id
MatchPool ==
    <<  MatchOf(1, 80, 60, 100, 50),
        MatchOf(2, 100, 100, 100, 100),
        MatchOf(3, 60, 100, 80, 50),
        MatchOf(4, 80, 60, 100, 50),
        MatchOf(5, 20, 40, 50, 0) >>

\* Lists of up to MaxMatches different MatchResults
MatchLists ==
    {[i \in 1..Len(ids) |-> MatchPool[ids[i]]] :
        ids \in {s \in SeqsUpTo(1..Len(MatchPool), MaxMatches) :
                    \A i, j \in 1..Len(s) : i # j => s[i] # s[j]}}

\* custom_weights: None (the empty record), the maps of WeightPool, a map
\* with a negative weight
RankWeightPool ==
    <<  <<>>  >> \o WeightPool \o
    <<  [skills |-> -50, experience |-> 50, education |-> 50,
         semantic |-> 50]  >>

\* The threshold argument of get_top_k, in units of 1/Unit: the default 0.0
\* and 72.0
TopKThresholds == {0, 72 * Unit}

\* rk_args before get_top_k is called
NoTopKArgs == [k |-> 0, threshold |-> 0]

RankInit ==
    /\ rk_matches \in MatchLists
    /\ \E w \in 1..Len(RankWeightPool) : rk_weights = RankWeightPool[w]
    /\ rk_ranked = <<>>
    /\ rk_pc = "call"
    /\ rk_args = NoTopKArgs
    /\ rk_top = <<>>

RankIdle ==
    /\ rk_matches = <<>>
    /\ rk_weights = <<>>
    /\ rk_ranked = <<>>
    /\ rk_pc = "idle"
    /\ rk_args = NoTopKArgs
    /\ rk_top = <<>>

\* ranked = rank_matches(rk_matches, rk_weights)
RankCall ==
    /\ rk_pc = "call"
    /\ rk_ranked' = RankMatches(rk_matches, rk_weights)
    /\ rk_matches' = IF rk_matches = <<>> THEN rk_matches
                     ELSE Rescored(rk_matches, rk_weights)
    /\ rk_pc' = "returned"
    /\ UNCHANGED <<rk_weights, rk_args, rk_top, skvars, flvars, mvars, xvars>>

\* The objects of ms after get_top_k: those that pass
\* `m.overall_score >= threshold` go through rank_matches(filtered), which
\* rescores them with the default weights; the others are not touched.
AfterGetTopK(ms, threshold) ==
    [i \in 1..Len(ms) |->
        IF ms[i].overall_score >= threshold
        THEN Rescored(<<ms[i]>>, <<>>)[1]
        ELSE ms[i]]

\* get_top_k: filtered = [m for m in matches if m.overall_score >= threshold]
\* ranked = self.rank_matches(filtered); return ranked[:k]
GetTopKResult(ms, k, threshold) ==
    LET Keep(m) == m.overall_score >= threshold
    IN  Slice(RankMatches(SelectSeq(ms, Keep), <<>>), k)

\* top = get_top_k(rk_matches, k, threshold), on MatchResults as they were
\* built or as an earlier rank_matches(rk_matches, rk_weights) left them.
\* rk_ranked holds the same objects as rk_matches.
GetTopK ==
    /\ rk_pc \in {"call", "returned"}
    /\ \E k \in 1..MaxTopK, threshold \in TopKThresholds :
        /\ rk_args' = [k |-> k, threshold |-> threshold]
        /\ rk_top' = GetTopKResult(rk_matches, k, threshold)
        /\ rk_matches' = AfterGetTopK(rk_matches, threshold)
        /\ rk_ranked' = AfterGetTopK(rk_ranked, threshold)
    /\ rk_pc' = "top_k returned"
    /\ UNCHANGED <<rk_weights, skvars, flvars, mvars, xvars>>

----------------------------------------------------------------------------
(* binary64: Python's float.  The scores of _calculate_match and of
   _calculate_weighted_score are floats, and the two add and multiply the
   same numbers in different orders. *)

\* A natural number as its digits in base Base, the least significant first
\* and the last one not 0; <<>> is zero.  (A product of two digits plus a
\* carry stays below 2^31.)
DigitBits == 3 * 5
Base == 2 ^ DigitBits

RECURSIVE Digits(_)
Digits(n) == IF n = 0 THEN <<>> ELSE <<n % Base>> \o Digits(n \div Base)

RECURSIVE TrimDigits(_)
TrimDigits(a) ==
    IF a = <<>> \/ a[Len(a)] # 0 THEN a
    ELSE TrimDigits(SubSeq(a, 1, Len(a) - 1))

\* The number of binary digits of a
BitLength(a) ==
    IF a = <<>> THEN 0
    ELSE DigitBits * (Len(a) - 1)
         + (CHOOSE k \in 1..DigitBits :
                2 ^ (k - 1) <= a[Len(a)] /\ a[Len(a)] < 2 ^ k)

RECURSIVE AddDigits(_, _, _)
AddDigits(a, b, carry) ==
    IF a = <<>> /\ b = <<>> THEN (IF carry = 0 THEN <<>> ELSE <<carry>>)
    ELSE LET x == IF a = <<>> THEN 0 ELSE Head(a)
             y == IF b = <<>> THEN 0 ELSE Head(b)
             sum == x + y + carry
         IN  <<sum % Base>> \o AddDigits(IF a = <<>> THEN a ELSE Tail(a),
                                         IF b = <<>> THEN b ELSE Tail(b),
                                         sum \div Base)

\* a * digit + carry, for a digit that is not 0
RECURSIVE MulDigit(_, _, _)
MulDigit(a, digit, carry) ==
    IF a = <<>> THEN (IF carry = 0 THEN <<>> ELSE <<carry>>)
    ELSE LET t == Head(a) * digit + carry
         IN  <<t % Base>> \o MulDigit(Tail(a), digit, t \div Base)

RECURSIVE MulDigits(_, _)
MulDigits(a, b) ==
    IF a = <<>> \/ b = <<>> THEN <<>>
    ELSE LET rest == MulDigits(Tail(a), b)
             low == IF Head(a) = 0 THEN <<>> ELSE MulDigit(b, Head(a), 0)
         IN  AddDigits(low, IF rest = <<>> THEN <<>> ELSE <<0>> \o rest, 0)

\* a divided by d, 0 < d <= Base: the quotient's digits (as many as a has)
\* and the remainder
RECURSIVE DivDigit(_, _)
DivDigit(a, d) ==
    IF a = <<>> THEN [quot |-> <<>>, rem |-> 0]
    ELSE LET high == DivDigit(Tail(a), d)
             cur == high.rem * Base + Head(a)
         IN  [quot |-> <<cur \div d>> \o high.quot, rem |-> cur % d]

\* a >= b
GeDigits(a, b) ==
    \/ Len(a) > Len(b)
    \/ /\ Len(a) = Len(b)
       /\ ~\E i \in 1..Len(a) :
            /\ a[i] < b[i]
            /\ \A j \in (i + 1)..Len(a) : a[j] = b[j]

\* a * 2^n
ShiftLeft(a, n) ==
    IF a = <<>> THEN <<>>
    ELSE [i \in 1..(n \div DigitBits) |-> 0]
         \o MulDigit(a, 2 ^ (n % DigitBits), 0)

\* a divided by 2^n, and whether anything is left over
ShiftRight(a, n) ==
    LET whole == Min(n \div DigitBits, Len(a))
        d == DivDigit(SubSeq(a, whole + 1, Len(a)), 2 ^ (n % DigitBits))
    IN  [quot |-> TrimDigits(d.quot),
         inexact |-> d.rem # 0 \/ \E i \in 1..whole : a[i] # 0]

\* The significand of a binary64 has 52 stored binary digits and a leading 1
Precision == 52 + 1

\* A float that is zero, or m * 2^e with m of Precision binary digits.  (The
\* scores are far from the subnormal and the overflow range, and none is
\* negative where floats are modelled.)
FZero == [m |-> <<>>, e |-> 0]

\* digits * 2^e, plus a positive amount below 2^e when inexact, rounded to
\* nearest, ties to even
RoundNearestEven(digits, e, inexact) ==
    IF digits = <<>> THEN FZero
    ELSE IF BitLength(digits) <= Precision
    THEN [m |-> ShiftLeft(digits, Precision - BitLength(digits)),
          e |-> e - (Precision - BitLength(digits))]
    ELSE LET d == BitLength(digits) - Precision
             t == ShiftRight(digits, d - 1)
             half == t.quot[1] % 2 = 1
             below == inexact \/ t.inexact
             kept == ShiftRight(t.quot, 1).quot
             up == half /\ (below \/ kept[1] % 2 = 1)
             r == IF up THEN AddDigits(kept, <<1>>, 0) ELSE kept
         IN  IF BitLength(r) > Precision
             THEN [m |-> ShiftRight(r, 1).quot, e |-> e + d + 1]
             ELSE [m |-> r, e |-> e + d]

\* The float nearest to p / q, for naturals p and 0 < q <= Base: what a
\* decimal literal is read as, and what the division of two small integers
\* gives.  (p * 2^64 / q has more than Precision binary digits.)
FromRatio(p, q) ==
    LET d == DivDigit(ShiftLeft(Digits(p), 64), q)
    IN  RoundNearestEven(TrimDigits(d.quot), -64, d.rem # 0)

FMul(x, y) == RoundNearestEven(MulDigits(x.m, y.m), x.e + y.e, FALSE)

FAdd(x, y) ==
    IF x.m = <<>> THEN y
    ELSE IF y.m = <<>> THEN x
    ELSE LET e == Min(x.e, y.e)
         IN  RoundNearestEven(AddDigits(ShiftLeft(x.m, x.e - e),
                                        ShiftLeft(y.m, y.e - e), 0), e, FALSE)

\* x >= y
FGe(x, y) ==
    IF y.m = <<>> THEN TRUE
    ELSE IF x.m = <<>> THEN FALSE
    ELSE LET e == Min(x.e, y.e)
         IN  GeDigits(ShiftLeft(x.m, x.e - e), ShiftLeft(y.m, y.e - e))

\* Python's max(x, y) and min(x, y): x unless y is strictly beyond it
FMax(x, y) == IF FGe(x, y) THEN x ELSE y
FMin(x, y) == IF FGe(y, x) THEN x ELSE y

\* The float of a score that the scorers above give in units of 1/Unit.
\* Each scorer returns a literal or the quotient of two small numbers, so
\* its float is the one nearest to the exact value.
Float(score) == FromRatio(score, Unit)

\* The float of a weight held in hundredths (the literal 0.35 for 35)
WeightFloat(w) == FromRatio(w, 100)

\* The line `overall_score = (...) * 100` of _calculate_match, in floats
OverallScoreFloat(semantic_score, skills_score, experience_score, education_score, weights) ==
    FMul(FAdd(FAdd(FAdd(FMul(semantic_score, WeightFloat(weights.semantic)),
                        FMul(skills_score, WeightFloat(weights.skills))),
                   FMul(experience_score, WeightFloat(weights.experience))),
              FMul(education_score, WeightFloat(weights.education))),
         FromRatio(100, 1))

\* _calculate_confidence on a float
CalculateConfidenceFloat(overall_score) ==
    IF FGe(overall_score, FromRatio(85, 1)) THEN "Very High"
    ELSE IF FGe(overall_score, FromRatio(75, 1)) THEN "High"
    ELSE IF FGe(overall_score, FromRatio(60, 1)) THEN "Medium"
    ELSE "Low"

\* _calculate_match, its scores held as floats
CalculateMatchFloat(res, res_embedding, job, job_embedding, weights) ==
    LET semantic_score == Float(CosineSimilarity(res_embedding, job_embedding))
        skills_score == Float(CalculateSkillsMatch(res.skills,
                                                   job.required_skills))
        experience_score == Float(CalculateExperienceMatch(res, job))
        education_score == Float(CalculateEducationMatch(res, job))
        overall_score == OverallScoreFloat(semantic_score, skills_score,
                                           experience_score, education_score,
                                           weights)
    IN  [resume_id |-> res.resume_id,
         job_id |-> job.job_id,
         overall_score |-> overall_score,
         skills_match_score |-> FMul(skills_score, FromRatio(100, 1)),
         experience_match_score |-> FMul(experience_score, FromRatio(100, 1)),
         education_match_score |-> FMul(education_score, FromRatio(100, 1)),
         semantic_similarity_score |-> FMul(semantic_score, FromRatio(100, 1)),
         confidence_level |-> CalculateConfidenceFloat(overall_score)]

\* _calculate_weighted_score on a MatchResult whose scores are floats;
\* weights are the RankingWeights _get_weights made of the custom map
CalculateWeightedScoreFloat(match, weights) ==
    LET score ==
            FAdd(FAdd(FAdd(FMul(match.skills_match_score,
                                WeightFloat(weights.skills)),
                           FMul(match.experience_match_score,
                                WeightFloat(weights.experience))),
                      FMul(match.education_match_score,
                           WeightFloat(weights.education))),
                 FMul(match.semantic_similarity_score,
                      WeightFloat(weights.semantic)))
    IN  FMax(FZero, FMin(FromRatio(100, 1), score))

----------------------------------------------------------------------------
(* SpecFloat: match_resume_to_jobs on one job, the scores in binary64 *)

\* Jobs whose embedding is along, across or against the resume's, so that
\* the cosine is exactly 1 or 0 (the API's vectors are float32, and other
\* cosines are not the nearest float of their exact value)
FloatJobPool ==
    <<  JobPool[1],
        JobPool[4],
        [job_id |-> 5, required_skills |-> <<Python, AWS>>,
         experience_required |-> Years(7),
         education_required |-> Degree({"master"}),
         remote |-> FALSE, model_vec |-> <<0, 1>>],
        [job_id |-> 6, required_skills |-> <<Py>>,
         experience_required |-> NoRequirement,
         education_required |-> NoEducation,
         remote |-> TRUE, model_vec |-> <<1, 0>>],
        [job_id |-> 7, required_skills |-> <<Python, Django>>,
         experience_required |-> Years(5),
         education_required |-> Degree({"phd"}),
         remote |-> FALSE, model_vec |-> <<1, 0>>],
        [job_id |-> 8, required_skills |-> <<Django, AWS, Python>>,
         experience_required |-> Years(10),
         education_required |-> Degree({"bachelor"}),
         remote |-> FALSE, model_vec |-> <<0, 1>>] >>

\* Weight maps that sum to 1: the default, 0.5/0.3/0.1/0.1 and three more
FloatWeightPool ==
    <<  WeightPool[1],
        WeightPool[2],
        [skills |-> 40, experience |-> 30, education |-> 20, semantic |-> 10],
        [skills |-> 30, experience |-> 30, education |-> 20, semantic |-> 20],
        [skills |-> 25, experience |-> 25, education |-> 25, semantic |-> 25] >>

NoFloatMatch == [resume_id |-> 0]

FloatInit ==
    /\ \E w \in 1..Len(FloatWeightPool), j \in 1..Len(FloatJobPool) :
        fl_in \in [resume : ResumePool,
                   job : {FloatJobPool[j]},
                   weights : {FloatWeightPool[w]},
                   resume_api_ok : BOOLEAN,
                   job_api_ok : BOOLEAN]
    /\ ResumeTextEmpty(fl_in.resume) => fl_in.resume_api_ok
    /\ fl_match = NoFloatMatch
    /\ fl_pc = "call"

FloatIdle ==
    /\ fl_in = <<>>
    /\ fl_match = NoFloatMatch
    /\ fl_pc = "idle"

\* The embeddings and _calculate_match for the job
FloatScoreJob ==
    /\ fl_pc = "call"
    /\ ~CalculateMatchRaises(fl_in.resume, fl_in.job, fl_in.weights)
    /\ fl_match' =
        CalculateMatchFloat(
            fl_in.resume,
            GenerateEmbedding(ResumeTextEmpty(fl_in.resume),
                              fl_in.resume.model_vec, fl_in.resume_api_ok),
            fl_in.job,
            GenerateEmbedding(FALSE, fl_in.job.model_vec, fl_in.job_api_ok),
            fl_in.weights)
    /\ fl_pc' = "scored"
    /\ UNCHANGED <<fl_in, skvars, rkvars, mvars, xvars>>

\* rank_matches: match.overall_score = self._calculate_weighted_score(...)
FloatRank ==
    /\ fl_pc = "scored"
    /\ fl_match' =
        [fl_match EXCEPT !.overall_score =
            CalculateWeightedScoreFloat(fl_match, GetWeights(fl_in.weights))]
    /\ fl_pc' = "ranked"
    /\ UNCHANGED <<fl_in, skvars, rkvars, mvars, xvars>>

----------------------------------------------------------------------------
(* SpecScorers: _calculate_experience_match and _calculate_education_match
   on their own *)

\* Degree texts, each held as the degree_levels keys it contains; the empty
\* set is a text that names no degree of the table
DegreeTexts ==
    {{}, {"phd"}, {"master"}, {"bachelor"}, {"bachelor", "bachelors"},
     {"associate"}, {"high school"}, {"master", "bachelor"}}

\* resume.education: up to MaxEducation entries
EducationLists == SeqsUpTo(DegreeTexts, MaxEducation)

ExperienceRequirements == {NoRequirement} \cup {Years(n) : n \in 0..MaxYears}

EducationRequirements == {NoEducation} \cup {Degree(t) : t \in DegreeTexts}

NoScore == [called |-> FALSE, score |-> 0]

ScorersInit ==
    /\ \/ sc_in \in [scorer : {"experience"},
                     resume : [experience : 0..MaxExperience,
                               education : {<<>>}],
                     job : [experience_required : ExperienceRequirements,
                            education_required : {NoEducation}]]
       \/ sc_in \in [scorer : {"education"},
                     resume : [experience : {0},
                               education : EducationLists],
                     job : [experience_required : {NoRequirement},
                            education_required : EducationRequirements]]
    /\ sc_out = NoScore

ScorersIdle ==
    /\ sc_in = <<>>
    /\ sc_out = NoScore

\* experience_score = self._calculate_experience_match(resume, job)
ExperienceCall ==
    /\ ~sc_out.called
    /\ sc_in.scorer = "experience"
    /\ sc_out' = [called |-> TRUE,
                  score |-> CalculateExperienceMatch(sc_in.resume, sc_in.job)]
    /\ UNCHANGED <<sc_in, othervars, envars, stvars>>

\* education_score = self._calculate_education_match(resume, job)
EducationCall ==
    /\ ~sc_out.called
    /\ sc_in.scorer = "education"
    /\ sc_out' = [called |-> TRUE,
                  score |-> CalculateEducationMatch(sc_in.resume, sc_in.job)]
    /\ UNCHANGED <<sc_in, othervars, envars, stvars>>

----------------------------------------------------------------------------
(* SpecEncoder: Encoder (embeddings/encoder.py).  A text is held as the set
   of its tokens (no token twice), None as the empty text.  A vector is held
   component by component; the components are told apart exactly as the
   numbers are for vocabularies of two tokens and batches of at most three
   texts. *)

\* The tokens of the model, in the order TfidfVectorizer gives its features
TokenOrder == <<"aws", "python">>
Texts == SUBSET Range(TokenOrder)

\* texts: List[str]
Batches == SeqsUpTo(Texts, MaxBatch) \ {<<>>}

\* self._tfidf = None
NoTfidf == [state |-> "none", vocabulary |-> <<>>, n |-> 0,
            df |-> [t \in Range(TokenOrder) |-> 0]]

\* self._tfidf.fit(texts): the vocabulary, the number of documents and the
\* document frequency of each term
Fit(texts) ==
    LET InBatch(t) == \E i \in 1..Len(texts) : t \in texts[i]
    IN  [state |-> "fitted",
         vocabulary |-> SelectSeq(TokenOrder, InBatch),
         n |-> Len(texts),
         df |-> [t \in Range(TokenOrder) |->
                    Cardinality({i \in 1..Len(texts) : t \in texts[i]})]]

\* The idf of a term is ln((1 + n) / (1 + df)) + 1: it is told by the
\* fraction (1 + n) / (1 + df) in lowest terms
Idf(tfidf, t) ==
    LET a == 1 + tfidf.n
        b == 1 + tfidf.df[t]
        g == CHOOSE d \in 1..a :
                /\ a % d = 0 /\ b % d = 0
                /\ \A h \in 1..a : (a % h = 0 /\ b % h = 0) => h <= d
    IN  <<a \div g, b \div g>>

\* One row of self._tfidf.transform(texts), normalised to length 1: a
\* component is 0 for a term the text lacks; for the others it is the
\* term's idf over the norm of the idfs of the text's terms, which is
\* 1/sqrt(size) when those idfs are all equal.
Transform(tfidf, text) ==
    LET V == tfidf.vocabulary
        support == {i \in 1..Len(V) : V[i] \in text}
        idfs == {Idf(tfidf, V[i]) : i \in support}
    IN  [i \in 1..Len(V) |->
            IF i \notin support
            THEN [weight |-> <<0, 1>>, among |-> {}, size |-> 0]
            ELSE IF Cardinality(idfs) = 1
                 THEN [weight |-> <<1, 1>>, among |-> {<<1, 1>>},
                       size |-> Cardinality(support)]
            ELSE [weight |-> Idf(tfidf, V[i]), among |-> idfs,
                  size |-> Cardinality(support)]]

\* One row of self._model.encode(texts, ...): a function of the text alone
ModelRow(text) ==
    <<[weight |-> <<1, 1>>, among |-> {},
       size |-> Cardinality({t \in Texts : t \subseteq text})]>>

EncoderInit ==
    /\ en_st \in BOOLEAN
    /\ en_encoders = <<>>
    /\ en_seen = {}
    /\ en_calls = 0

EncoderIdle ==
    /\ en_st = FALSE
    /\ en_encoders = <<>>
    /\ en_seen = {}
    /\ en_calls = 0

\* Encoder()
NewEncoder ==
    /\ Len(en_encoders) < MaxEncoders
    /\ en_encoders' = Append(en_encoders, [tfidf |-> NoTfidf])
    /\ UNCHANGED <<en_st, en_seen, en_calls, othervars, scvars, stvars>>

\* encode(texts) with the SentenceTransformer model
EncodeWithModel ==
    /\ en_st
    /\ en_calls < MaxEncodes
    /\ \E e \in 1..Len(en_encoders), texts \in Batches :
        en_seen' = en_seen \cup
            {[text |-> texts[i], vec |-> ModelRow(texts[i])] :
                i \in 1..Len(texts)}
    /\ en_calls' = en_calls + 1
    /\ UNCHANGED <<en_st, en_encoders, othervars, scvars, stvars>>

\* encode(texts) with the TF-IDF fallback: the first call of an instance
\* fits the vectorizer on its batch
EncodeWithTfidf ==
    /\ ~en_st
    /\ en_calls < MaxEncodes
    /\ \E e \in 1..Len(en_encoders), texts \in Batches :
        LET fitted == Fit(texts)
            tfidf == IF en_encoders[e].tfidf.state = "none" THEN fitted
                     ELSE en_encoders[e].tfidf
        IN  /\ tfidf.state = "fitted"
            /\ tfidf.vocabulary # <<>>
            /\ en_encoders' = [en_encoders EXCEPT ![e].tfidf = tfidf]
            /\ en_seen' = en_seen \cup
                {[text |-> texts[i], vec |-> Transform(tfidf, texts[i])] :
                    i \in 1..Len(texts)}
    /\ en_calls' = en_calls + 1
    /\ UNCHANGED <<en_st, othervars, scvars, stvars>>

\* encode(texts) with the TF-IDF fallback raising: fit finds no token in
\* the first batch (empty vocabulary) and leaves the new vectorizer
\* unfitted, or the vectorizer was left unfitted by such a call
EncodeRaises ==
    /\ ~en_st
    /\ en_calls < MaxEncodes
    /\ \E e \in 1..Len(en_encoders), texts \in Batches :
        /\ \/ en_encoders[e].tfidf.state = "unfitted"
           \/ /\ en_encoders[e].tfidf.state = "none"
              /\ Fit(texts).vocabulary = <<>>
        /\ en_encoders' = [en_encoders EXCEPT ![e].tfidf.state = "unfitted"]
    /\ en_calls' = en_calls + 1
    /\ UNCHANGED <<en_st, en_seen, othervars, scvars, stvars>>

----------------------------------------------------------------------------
(* SpecStore: VectorStore (matching/vector_store.py) and the functions of
   embeddings/faiss_index.py; a behaviour uses one of them.  Vectors have two
   integer components; a normalised vector is held in units of 1/VecUnit,
   a squared distance in units of 1/VecUnit^2 and a similarity in units of
   1/(2 VecUnit^2), so that the similarity 1 is 2 VecUnit^2. *)

VecUnit == 1 * 5

\* The vectors given to add_vectors
VectorPool == {<<0, 0>>, <<3, 4>>}

\* The vectors given to search
QueryPool == {<<0, 3>>}

\* The metadata given to add_vectors
MetadataPool == {"a", "b"}

\* [None] * len(vectors)
NoneList(n) == [i \in 1..n |-> "None"]

\* _normalize_vectors, one row: the row over its norm, a norm of 0 taken
\* as 1
NormalizeVectors(v) ==
    LET sq == v[1] * v[1] + v[2] * v[2]
        norm == CHOOSE n \in 0..sq : n * n = sq
    IN  [i \in 1..2 |-> (VecUnit * v[i]) \div (IF norm = 0 THEN 1 ELSE norm)]

\* The squared L2 distance of IndexFlatL2
Distance(a, b) ==
    (a[1] - b[1]) * (a[1] - b[1]) + (a[2] - b[2]) * (a[2] - b[2])

\* self.index.search(query_vector, k): the positions (from 0) of the k
\* nearest vectors, nearest first, without the -1 padding; equal distances
\* in the order of the index's tie rule
IndexSearch(index, query, k, tie) ==
    LET n == Len(index.vectors)
        dist(i) == Distance(index.vectors[i], query)
        Before(i, j) ==
            \/ dist(i) < dist(j)
            \/ dist(i) = dist(j) /\ (IF tie = "low" THEN i < j ELSE i > j)
        place(i) == Cardinality({j \in 1..n : Before(j, i)}) + 1
    IN  [r \in 1..Min(k, n) |-> (CHOOSE i \in 1..n : place(i) = r) - 1]

\* VectorStore.search
SearchStore(index, metadata, query_vector, k, tie) ==
    LET query == NormalizeVectors(query_vector)
        indices == IndexSearch(index, query, k, tie)
    IN  [r \in 1..Len(indices) |->
            LET i == indices[r]
                dist == Distance(index.vectors[i + 1], query)
            IN  [similarity |-> 2 * VecUnit * VecUnit - dist,
                 item |-> IF i < Len(metadata)
                          THEN [metadata |-> metadata[i + 1]]
                          ELSE [idx |-> i]]]

\* The files a path can hold before anything is saved to it
FilePool ==
    [faiss : {[kind |-> "missing"], [kind |-> "malformed"],
              [kind |-> "index", d |-> 2, vectors |-> <<<<0, VecUnit>>>>]},
     npy : {[kind |-> "missing"],
            [kind |-> "array", d |-> 2, vectors |-> <<<<VecUnit, 0>>>>]},
     metadata : {[kind |-> "missing"], [kind |-> "malformed"],
                 [kind |-> "pickle", metadata |-> <<"b">>, dimension |-> 2],
                 [kind |-> "pickle", metadata |-> <<"b">>, dimension |-> 3],
                 [kind |-> "json", ids |-> <<"b">>]}]

\* VectorStore(dimension=2), or no index object yet
StoreInit ==
    /\ st_backend \in {"VectorStore", "faiss", "npy"}
    /\ st_tie \in {"low", "high"}
    /\ st_index = [d |-> 2, vectors |-> <<>>]
    /\ st_metadata = <<>>
    /\ st_dimension = 2
    /\ st_files \in FilePool
    /\ st_backend = "VectorStore" => st_files.npy.kind = "missing"
    /\ st_saved = <<>>
    /\ st_op = [call |-> "init"]
    /\ st_hits = <<>>

StoreIdle ==
    /\ st_backend = "VectorStore"
    /\ st_tie = "low"
    /\ st_index = [d |-> 2, vectors |-> <<>>]
    /\ st_metadata = <<>>
    /\ st_dimension = 2
    /\ st_files = [faiss |-> [kind |-> "missing"], npy |-> [kind |-> "missing"],
                   metadata |-> [kind |-> "missing"]]
    /\ st_saved = <<>>
    /\ st_op = [call |-> "init"]
    /\ st_hits = <<>>

\* add_vectors(vectors, metadata): metadata is None, empty, or a list of
\* any length
AddVectors ==
    /\ st_backend = "VectorStore"
    /\ \E vectors \in SeqsUpTo(VectorPool, MaxStored - Len(st_index.vectors)),
          metadata \in SeqsUpTo(MetadataPool, MaxStored - Len(st_metadata)) :
        /\ vectors # <<>>
        /\ st_index' = [st_index EXCEPT !.vectors =
               @ \o [i \in 1..Len(vectors) |-> NormalizeVectors(vectors[i])]]
        /\ st_metadata' = IF metadata # <<>>
                          THEN st_metadata \o metadata
                          ELSE st_metadata \o NoneList(Len(vectors))
    /\ st_op' = [call |-> "add_vectors"]
    /\ st_hits' = <<>>
    /\ UNCHANGED <<st_backend, st_tie, st_dimension, st_files, st_saved,
                   othervars, scvars, envars>>

\* search(query_vector, k)
Search ==
    /\ st_backend = "VectorStore"
    /\ \E query_vector \in QueryPool, k \in 1..MaxK :
        /\ st_hits' = SearchStore(st_index, st_metadata, query_vector, k,
                                  st_tie)
        /\ st_op' = [call |-> "search", query_vector |-> query_vector,
                     k |-> k]
    /\ UNCHANGED <<st_backend, st_tie, st_index, st_metadata, st_dimension, st_files,
                   st_saved, othervars, scvars, envars>>

\* save(filepath)
Save ==
    /\ st_backend = "VectorStore"
    /\ st_files' =
        [st_files EXCEPT
            !.faiss = [kind |-> "index", d |-> st_index.d,
                       vectors |-> st_index.vectors],
            !.metadata = [kind |-> "pickle", metadata |-> st_metadata,
                          dimension |-> st_dimension]]
    /\ st_saved' = <<[index |-> st_index, metadata |-> st_metadata]>>
    /\ st_op' = [call |-> "save"]
    /\ st_hits' = <<>>
    /\ UNCHANGED <<st_backend, st_tie, st_index, st_metadata, st_dimension,
                   othervars, scvars, envars>>

\* load(filepath) that reads the index and forgets the metadata
LoadDroppingMetadata ==
    /\ st_backend = "VectorStore"
    /\ st_files.faiss.kind = "index"
    /\ st_files.metadata.kind = "pickle"
    /\ st_index' = [d |-> st_files.faiss.d, vectors |-> st_files.faiss.vectors]
    /\ st_metadata' = <<>>
    /\ st_dimension' = st_files.metadata.dimension
    /\ st_op' = [call |-> "load"]
    /\ st_hits' = <<>>
    /\ UNCHANGED <<st_backend, st_tie, st_files, st_saved, othervars, scvars, envars>>

\* load(filepath) returning: both files are read
Load ==
    /\ st_backend = "VectorStore"
    /\ st_files.faiss.kind = "index"
    /\ st_files.metadata.kind = "pickle"
    /\ st_index' = [d |-> st_files.faiss.d, vectors |-> st_files.faiss.vectors]
    /\ st_metadata' = st_files.metadata.metadata
    /\ st_dimension' = st_files.metadata.dimension
    /\ st_op' = [call |-> "load"]
    /\ st_hits' = <<>>
    /\ UNCHANGED <<st_backend, st_tie, st_files, st_saved, othervars, scvars, envars>>

\* load(filepath) raising: read_index raises on the .faiss file, or it
\* returns, self.index is assigned, and the .metadata file cannot be read
LoadRaises ==
    /\ st_backend = "VectorStore"
    /\ \/ /\ st_files.faiss.kind # "index"
          /\ UNCHANGED st_index
       \/ /\ st_files.faiss.kind = "index"
          /\ st_files.metadata.kind # "pickle"
          /\ st_index' = [d |-> st_files.faiss.d,
                          vectors |-> st_files.faiss.vectors]
    /\ st_op' = [call |-> "load raised"]
    /\ st_hits' = <<>>
    /\ UNCHANGED <<st_backend, st_tie, st_metadata, st_dimension, st_files, st_saved,
                   othervars, scvars, envars>>

\* The inner product of IndexFlatIP; cosine_similarity of the brute-force
\* search is the same number for vectors of length 1 or 0
InnerProduct(a, b) == a[1] * b[1] + a[2] * b[2]

\* faiss_index.search(index_obj, query_emb, k): the k positions of highest
\* score with their scores, highest first; equal scores in the order of
\* the index's tie rule
SearchIndex(index, query_emb, k, tie) ==
    LET n == Len(index.vectors)
        score(i) == InnerProduct(index.vectors[i], query_emb)
        Before(i, j) ==
            \/ score(i) > score(j)
            \/ score(i) = score(j) /\ (IF tie = "low" THEN i < j ELSE i > j)
        place(i) == Cardinality({j \in 1..n : Before(j, i)}) + 1
    IN  [r \in 1..Min(k, n) |->
            LET i == CHOOSE c \in 1..n : place(c) = r
            IN  [similarity |-> 2 * score(i), item |-> [idx |-> i - 1]]]

\* build_index(embeddings, ids, index_path): embeddings are normalised by
\* the caller and len(ids) is their number.  It runs in the build script,
\* which holds no index object of an earlier load_index.
BuildIndex ==
    /\ st_backend # "VectorStore"
    /\ \E vectors \in SeqsUpTo(VectorPool, MaxStored),
          ids \in SeqsUpTo(MetadataPool, MaxStored) :
        LET embeddings == [i \in 1..Len(vectors) |->
                                NormalizeVectors(vectors[i])]
        IN  /\ vectors # <<>>
            /\ Len(ids) = Len(vectors)
            /\ st_files' =
                IF st_backend = "faiss"
                THEN [st_files EXCEPT
                        !.faiss = [kind |-> "index", d |-> 2,
                                   vectors |-> embeddings],
                        !.metadata = [kind |-> "json", ids |-> ids]]
                ELSE [st_files EXCEPT
                        !.npy = [kind |-> "array", d |-> 2,
                                 vectors |-> embeddings],
                        !.metadata = [kind |-> "json", ids |-> ids]]
            /\ st_saved' = <<[index |-> [d |-> 2, vectors |-> embeddings],
                             metadata |-> ids]>>
    /\ st_index' = [d |-> 2, vectors |-> <<>>]
    /\ st_metadata' = <<>>
    /\ st_op' = [call |-> "build_index"]
    /\ st_hits' = <<>>
    /\ UNCHANGED <<st_backend, st_tie, st_dimension, othervars, scvars, envars>>

\* The file load_index reads the vectors from: the index file with FAISS
\* when it exists, else the .emb.npy file when it exists
IndexFile ==
    IF st_backend = "faiss" /\ st_files.faiss.kind # "missing"
    THEN st_files.faiss
    ELSE st_files.npy

\* load_index(index_path) returning an index object
LoadIndex ==
    /\ st_backend # "VectorStore"
    /\ IndexFile.kind \in {"index", "array"}
    /\ st_files.metadata.kind = "json"
    /\ st_index' = [d |-> IndexFile.d, vectors |-> IndexFile.vectors]
    /\ st_metadata' = st_files.metadata.ids
    /\ st_op' = [call |-> "load_index"]
    /\ st_hits' = <<>>
    /\ UNCHANGED <<st_backend, st_tie, st_dimension, st_files, st_saved,
                   othervars, scvars, envars>>

\* load_index(index_path) raising: no file to read, or one that cannot be
\* read; the caller gets no index object
LoadIndexRaises ==
    /\ st_backend # "VectorStore"
    /\ \/ IndexFile.kind \notin {"index", "array"}
       \/ st_files.metadata.kind # "json"
    /\ st_op' = [call |-> "load_index raised"]
    /\ st_hits' = <<>>
    /\ UNCHANGED <<st_backend, st_tie, st_index, st_metadata, st_dimension,
                   st_files, st_saved, othervars, scvars, envars>>

\* search(index_obj, query_emb, k) on the object load_index returned
SearchLoaded ==
    /\ st_backend # "VectorStore"
    /\ st_op.call \in {"load_index", "search"}
    /\ \E query_vector \in QueryPool, k \in 1..MaxK :
        /\ st_hits' = SearchIndex(st_index, NormalizeVectors(query_vector), k,
                                  st_tie)
        /\ st_op' = [call |-> "search", query_vector |-> query_vector,
                     k |-> k]
    /\ UNCHANGED <<st_backend, st_tie, st_index, st_metadata, st_dimension,
                   st_files, st_saved, othervars, scvars, envars>>

----------------------------------------------------------------------------
(* SpecSimple: scoring/simple_score.py and the /analyze route on texts of
   up to MaxTextLen characters *)

\* The characters of the texts, as ASCII codes: "A", "a", "w", the blank
\* and the backslash
Chars == {65, 97, 119, 32, 92}

SimpleTexts == SeqsUpTo(Chars, MaxTextLen)

\* Scores of simple_score are held in units of 1/SimpleUnit
SimpleUnit == 2 * 3

\* re.findall(r"\\w+", s): the pattern of the raw string is a backslash
\* followed by one or more letters w; the matches from left to right, each
\* as long as it can be
RECURSIVE FindAll(_)
FindAll(s) ==
    IF s = <<>> THEN <<>>
    ELSE IF Head(s) = 92 /\ Len(s) >= 2 /\ s[2] = 119
         THEN LET last == CHOOSE j \in 2..Len(s) :
                            /\ \A i \in 2..j : s[i] = 119
                            /\ j = Len(s) \/ s[j + 1] # 119
              IN  <<SubSeq(s, 1, last)>> \o FindAll(SubSeq(s, last + 1, Len(s)))
         ELSE FindAll(Tail(s))

\* words(s): [w.lower() for w in re.findall(r"\\w+", s or "")]
Words(s) ==
    LET found == FindAll(s) IN [i \in 1..Len(found) |-> StrLower(found[i])]

\* simple_score(record, jd_text); matched_terms is held as the set it lists
SimpleScore(record, jd_text) ==
    LET jd_words == IF jd_text # <<>> THEN Range(Words(jd_text)) ELSE {}
        resume_words == Range(Words(record.raw_text))
        common == jd_words \cap resume_words
        match_count == Cardinality(common)
    IN  IF jd_words = {}
        THEN [score |-> 0, explain |-> [reason |-> "no_jd_text"]]
        ELSE [score |-> Min(SimpleUnit,
                            (match_count * SimpleUnit)
                                \div Max(1, Cardinality(jd_words))),
              explain |-> [jd_term_count |-> Cardinality(jd_words),
                           matched_terms |-> common,
                           match_count |-> match_count]]

NoSimpleOut == [call |-> "none"]

SimpleInit ==
    /\ ss_in \in [raw_text : SimpleTexts, jd_text : SimpleTexts]
    /\ ss_out = NoSimpleOut

SimpleIdle ==
    /\ ss_in = [raw_text |-> <<>>, jd_text |-> <<>>]
    /\ ss_out = NoSimpleOut

\* score, explain = simple_score({"raw_text": raw_text}, jd_text)
SimpleScoreCall ==
    /\ ss_out = NoSimpleOut
    /\ LET record == [raw_text |-> ss_in.raw_text]
           out == SimpleScore(record, ss_in.jd_text)
       IN  ss_out' = [call |-> "simple_score", record |-> record,
                      score |-> out.score, explain |-> out.explain]
    /\ UNCHANGED <<ss_in, corevars, scvars, envars, stvars, twvars>>

\* POST /analyze with jd_text and no file: 400 for an empty jd_text, else
\* the score of the record made of jd_text against jd_text
Analyze ==
    /\ ss_out = NoSimpleOut
    /\ IF ss_in.jd_text = <<>>
       THEN ss_out' = [call |-> "analyze", status |-> 400]
       ELSE LET record == [raw_text |-> ss_in.jd_text]
                out == SimpleScore(record, ss_in.jd_text)
            IN  ss_out' = [call |-> "analyze", status |-> 200,
                           record |-> record, score |-> out.score,
                           explain |-> out.explain]
    /\ UNCHANGED <<ss_in, corevars, scvars, envars, stvars, twvars>>

----------------------------------------------------------------------------
(* SpecTwo: two calls of match_resume_to_jobs on one JobMatcher, their
   steps interleaved, on a non-empty list of jobs and with top_k=None *)

Calls == {1, 2}

\* JobMatcher.__init__: the attributes of the object; the embedding
\* generator, the scorer and the ranker hold nothing
TwoMatcher ==
    [config |-> [similarity_threshold |-> (5 * Unit) \div 10,
                 top_k |-> DefaultTopK, weights |-> WeightPool[2]]]

\* Lists of 1 to MaxTwoJobs different jobs
TwoJobLists ==
    {[i \in 1..Len(ids) |-> JobPool[ids[i]]] :
        ids \in {q \in SeqsUpTo(1..Len(JobPool), MaxTwoJobs) :
                    /\ q # <<>>
                    /\ \A i, j \in 1..Len(q) : i # j => q[i] # q[j]}}

\* The sets of keys _get_matched_skills can iterate
TwoKeySets ==
    {MatchedKeys(r.skills, JobPool[j].required_skills) :
        r \in ResumePool, j \in 1..Len(JobPool)}

\* MatchResult(...): the dataclass adds match_id = str(uuid.uuid4()) and
\* matched_date = datetime.now() to the fields it is given
NewMatchResult(fields, match_id, matched_date) ==
    [f \in DOMAIN fields \cup {"match_id", "matched_date"} |->
        IF f = "match_id" THEN match_id
        ELSE IF f = "matched_date" THEN matched_date
        ELSE fields[f]]

\* The locals of a call before its first step
NoLocals ==
    [pc |-> "start", top_k |-> 0, resume_embedding |-> Zeros,
     job_embeddings |-> <<>>, idx |-> 0, matches |-> <<>>,
     ranked_matches |-> <<>>, filtered_matches |-> <<>>, result |-> <<>>]

TwoInit ==
    /\ tw_matcher = TwoMatcher
    /\ tw_resume \in {f \in [Calls -> ResumePool] :
                        f[1].resume_id <= f[2].resume_id}
    /\ tw_jobs \in TwoJobLists
    /\ tw_order \in {f \in [TwoKeySets -> UNION {SetOrders(K) : K \in TwoKeySets}] :
                        \A K \in TwoKeySets : f[K] \in SetOrders(K)}
    /\ tw_clock = 0
    /\ tw_failed = 0
    /\ tw_inv = [i \in Calls |-> NoLocals]

TwoIdle ==
    /\ tw_matcher = TwoMatcher
    /\ tw_resume = [i \in Calls |-> CHOOSE r \in ResumePool : r.resume_id = 1]
    /\ tw_jobs = <<>>
    /\ tw_order = <<>>
    /\ tw_clock = 0
    /\ tw_failed = 0
    /\ tw_inv = [i \in Calls |-> [NoLocals EXCEPT !.pc = "idle"]]

\* top_k = top_k or self.config.top_k
\* resume_embedding = self._generate_resume_embedding(resume)
TwoEmbedResume(i) ==
    /\ tw_inv[i].pc = "start"
    /\ \E api_ok \in BOOLEAN :
        /\ ResumeTextEmpty(tw_resume[i]) => api_ok
        /\ ~api_ok => tw_failed < MaxFailedCalls
        /\ tw_inv' = [tw_inv EXCEPT
              ![i].top_k = tw_matcher.config.top_k,
              ![i].resume_embedding =
                  GenerateEmbedding(ResumeTextEmpty(tw_resume[i]),
                                    tw_resume[i].model_vec, api_ok),
              ![i].pc = "embed_jobs"]
        /\ tw_failed' = IF api_ok THEN tw_failed ELSE tw_failed + 1
    /\ UNCHANGED <<tw_matcher, tw_resume, tw_jobs, tw_order, tw_clock,
                   corevars, scvars, envars, stvars, ssvars>>

\* One turn of: for job in jobs: job_embeddings.append(...)
TwoEmbedJob(i) ==
    /\ tw_inv[i].pc = "embed_jobs"
    /\ LET n == Len(tw_inv[i].job_embeddings) + 1 IN
        \E api_ok \in BOOLEAN :
            /\ ~api_ok => tw_failed < MaxFailedCalls
            /\ tw_inv' = [tw_inv EXCEPT
                  ![i].job_embeddings =
                      Append(@, GenerateEmbedding(FALSE, tw_jobs[n].model_vec,
                                                  api_ok)),
                  ![i].pc = IF n = Len(tw_jobs) THEN "score" ELSE "embed_jobs"]
            /\ tw_failed' = IF api_ok THEN tw_failed ELSE tw_failed + 1
    /\ UNCHANGED <<tw_matcher, tw_resume, tw_jobs, tw_order, tw_clock,
                   corevars, scvars, envars, stvars, ssvars>>

\* The MatchResult _calculate_match builds for the call's job at position n
TwoMatch(i, n, match_id, matched_date) ==
    LET job == tw_jobs[n]
        keys == MatchedKeys(tw_resume[i].skills, job.required_skills)
    IN  NewMatchResult(CalculateMatch(tw_resume[i],
                                      tw_inv[i].resume_embedding, job,
                                      tw_inv[i].job_embeddings[n],
                                      tw_matcher.config.weights,
                                      tw_order[keys]),
                       match_id, matched_date)

\* One turn of the scoring loop with the list of matches kept on the
\* JobMatcher: the match lands in the list of every call
TwoScoreJobShared(i) ==
    /\ tw_inv[i].pc = "score"
    /\ LET n == tw_inv[i].idx + 1 IN
        /\ ~CalculateMatchRaises(tw_resume[i], tw_jobs[n],
                                 tw_matcher.config.weights)
        /\ \E match_id \in 1..MaxUuid, now \in tw_clock..MaxClock :
            /\ tw_inv' = [c \in Calls |->
                  [tw_inv[c] EXCEPT
                     !.matches = Append(@, TwoMatch(i, n, match_id, now)),
                     !.idx = IF c = i THEN n ELSE @,
                     !.pc = IF c # i THEN @
                            ELSE IF n = Len(tw_jobs) THEN "rank" ELSE "score"]]
            /\ tw_clock' = now
    /\ UNCHANGED <<tw_matcher, tw_resume, tw_jobs, tw_order, tw_failed,
                   corevars, scvars, envars, stvars, ssvars>>

\* One turn of the scoring loop in which _calculate_match returns; uuid4()
\* gives any id, datetime.now() a time not before the last one given
TwoScoreJob(i) ==
    /\ tw_inv[i].pc = "score"
    /\ LET n == tw_inv[i].idx + 1 IN
        /\ ~CalculateMatchRaises(tw_resume[i], tw_jobs[n],
                                 tw_matcher.config.weights)
        /\ \E match_id \in 1..MaxUuid, now \in tw_clock..MaxClock :
            /\ tw_inv' = [tw_inv EXCEPT
                  ![i].matches = Append(@, TwoMatch(i, n, match_id, now)),
                  ![i].idx = n,
                  ![i].pc = IF n = Len(tw_jobs) THEN "rank" ELSE "score"]
            /\ tw_clock' = now
    /\ UNCHANGED <<tw_matcher, tw_resume, tw_jobs, tw_order, tw_failed,
                   corevars, scvars, envars, stvars, ssvars>>

\* One turn of the scoring loop in which _calculate_match raises
TwoScoreJobError(i) ==
    /\ tw_inv[i].pc = "score"
    /\ LET n == tw_inv[i].idx + 1 IN
        /\ CalculateMatchRaises(tw_resume[i], tw_jobs[n],
                                tw_matcher.config.weights)
        /\ tw_inv' = [tw_inv EXCEPT
              ![i].idx = n,
              ![i].pc = IF n = Len(tw_jobs) THEN "rank" ELSE "score"]
    /\ UNCHANGED <<tw_matcher, tw_resume, tw_jobs, tw_order, tw_clock,
                   tw_failed, corevars, scvars, envars, stvars, ssvars>>

\* The rest of the call, which works on its locals alone:
\* ranked_matches = self.ranker.rank_matches(matches, self.config.weights)
\* filtered_matches = [m for m in ranked_matches if ...]
\* return filtered_matches[:top_k]
TwoRankAndReturn(i) ==
    /\ tw_inv[i].pc = "rank"
    /\ LET ranked == RankMatches(tw_inv[i].matches, tw_matcher.config.weights)
           filtered == FilterByThreshold(ranked,
                           tw_matcher.config.similarity_threshold)
       IN  tw_inv' = [tw_inv EXCEPT
             ![i].ranked_matches = ranked,
             ![i].matches = IF @ = <<>> THEN @
                            ELSE Rescored(@, tw_matcher.config.weights),
             ![i].filtered_matches = filtered,
             ![i].result = Slice(filtered, tw_inv[i].top_k),
             ![i].pc = "done"]
    /\ UNCHANGED <<tw_matcher, tw_resume, tw_jobs, tw_order, tw_clock,
                   tw_failed, corevars, scvars, envars, stvars, ssvars>>

\* The variables of the later specifications while another one runs
ExtraIdle ==
    ScorersIdle /\ EncoderIdle /\ StoreIdle /\ SimpleIdle /\ TwoIdle

----------------------------------------------------------------------------
(* The specifications *)

Init == MainInit /\ SkillsIdle /\ RankIdle /\ FloatIdle /\ ExtraIdle

Next ==
    \/ ReturnEmpty
    \/ Start
    \/ EmbedResume
    \/ EmbedJob
    \/ ScoreJob
    \/ ScoreJobError
    \/ Rank
    \/ Filter
    \/ Truncate

Spec == Init /\ [][Next]_vars

InitSkills == SkillsInit /\ RankIdle /\ FloatIdle /\ MainIdle /\ ExtraIdle
NextSkills == SkillsCall
SpecSkills == InitSkills /\ [][NextSkills]_vars

InitRank == RankInit /\ SkillsIdle /\ FloatIdle /\ MainIdle /\ ExtraIdle
NextRank ==
    \/ RankCall
    \/ GetTopK
SpecRank == InitRank /\ [][NextRank]_vars

InitFloat == FloatInit /\ SkillsIdle /\ RankIdle /\ MainIdle /\ ExtraIdle
NextFloat ==
    \/ FloatScoreJob
    \/ FloatRank
SpecFloat == InitFloat /\ [][NextFloat]_vars

\* The first four specifications at rest
CoreIdle == MainIdle /\ SkillsIdle /\ RankIdle /\ FloatIdle

InitScorers == ScorersInit /\ CoreIdle /\ SimpleIdle /\ TwoIdle /\ EncoderIdle /\ StoreIdle
NextScorers ==
    \/ ExperienceCall
    \/ EducationCall
SpecScorers == InitScorers /\ [][NextScorers]_vars

InitEncoder == EncoderInit /\ CoreIdle /\ SimpleIdle /\ TwoIdle /\ ScorersIdle /\ StoreIdle
NextEncoder ==
    \/ NewEncoder
    \/ EncodeWithModel
    \/ EncodeWithTfidf
    \/ EncodeRaises
SpecEncoder == InitEncoder /\ [][NextEncoder]_vars

InitSimple ==
    SimpleInit /\ CoreIdle /\ ScorersIdle /\ EncoderIdle /\ StoreIdle /\ TwoIdle
NextSimple ==
    \/ SimpleScoreCall
    \/ Analyze
SpecSimple == InitSimple /\ [][NextSimple]_vars

InitTwo ==
    TwoInit /\ CoreIdle /\ ScorersIdle /\ EncoderIdle /\ StoreIdle /\ SimpleIdle
NextTwo ==
    \E i \in Calls :
        \/ TwoEmbedResume(i)
        \/ TwoEmbedJob(i)
        \/ TwoScoreJob(i)
        \/ TwoScoreJobError(i)
        \/ TwoRankAndReturn(i)
SpecTwo == InitTwo /\ [][NextTwo]_vars

InitStore == StoreInit /\ CoreIdle /\ SimpleIdle /\ TwoIdle /\ ScorersIdle /\ EncoderIdle
NextStore ==
    \/ AddVectors
    \/ Search
    \/ Save
    \/ Load
    \/ LoadRaises
    \/ BuildIndex
    \/ LoadIndex
    \/ LoadIndexRaises
    \/ SearchLoaded
SpecStore == InitStore /\ [][NextStore]_vars

----------------------------------------------------------------------------
(* Claims about the skill functions (SpecSkills) *)

\* The required skills, told apart ignoring case
RequiredIgnoringCase == {StrLower(s) : s \in Range(sk_in.required_skills)}

\* Those equal, ignoring case, to a skill of the resume
ExactRequired ==
    {k \in RequiredIgnoringCase :
        \E i \in 1..Len(sk_in.resume_skills) :
            StrLower(sk_in.resume_skills[i]) = k}

\* The remaining ones that contain a skill of the resume or are contained
\* in one
PartialRequired ==
    {k \in RequiredIgnoringCase \ ExactRequired :
        \E i \in 1..Len(sk_in.resume_skills) :
            \/ IsSubstring(k, StrLower(sk_in.resume_skills[i]))
            \/ IsSubstring(StrLower(sk_in.resume_skills[i]), k)}

\* C9: the skills score is 1.0 when no skill is required, otherwise
\* min(1, (exact + 0.5 * partial) / |required|) with |required| counted
\* ignoring case; {Python, AWS} against {Python, Django, AWS} gives 2/3.
C9_SkillsScore ==
    sk_out.called =>
        LET twice == 2 * Cardinality(ExactRequired) + Cardinality(PartialRequired)
            n == Cardinality(RequiredIgnoringCase)
        IN  /\ sk_in.required_skills = <<>> => sk_out.score = Unit
            /\ sk_in.required_skills # <<>> =>
                IF twice >= 2 * n THEN sk_out.score = Unit
                ELSE sk_out.score * 2 * n = Unit * twice
            /\ (/\ sk_in.resume_skills = <<Python, AWS>>
                /\ sk_in.required_skills = <<Python, Django, AWS>>)
               => 3 * sk_out.score = 2 * Unit

\* An exact match, a partial match and an unmatched skill: (2 + 1) / 6
C9_Witness ==
    /\ sk_out.called
    /\ sk_in.resume_skills = <<Py, AWS>>
    /\ sk_in.required_skills = <<Python, Django, AWS>>
    /\ 2 * sk_out.score = Unit

\* C10: matched_skills and missing_skills have no skill in common, compared
\* ignoring case.
C10_MatchedMissingDisjoint ==
    sk_out.called =>
        LowerSet(sk_out.matched) \cap LowerSet(sk_out.missing) = {}

\* A required list with two spellings of one skill, some skill matched and
\* some skill missing
C10_Witness ==
    /\ sk_out.called
    /\ \E i, j \in 1..Len(sk_in.required_skills) :
        /\ sk_in.required_skills[i] # sk_in.required_skills[j]
        /\ StrLower(sk_in.required_skills[i]) = StrLower(sk_in.required_skills[j])
    /\ sk_out.matched # <<>>
    /\ sk_out.missing # <<>>

----------------------------------------------------------------------------
(* Claims about RankingAlgorithm.rank_matches (SpecRank) *)

\* C2: the list rank_matches returns is sorted non-increasing by
\* overall_score and holds each match it was given exactly once.
C2_SortedPermutation ==
    rk_pc = "returned" =>
        /\ \A i \in 1..(Len(rk_ranked) - 1) :
            rk_ranked[i].overall_score >= rk_ranked[i + 1].overall_score
        /\ Len(rk_ranked) = Len(rk_matches)
        /\ \A i \in 1..Len(rk_matches) :
            Cardinality({j \in 1..Len(rk_ranked) : rk_ranked[j] = rk_matches[i]}) = 1

\* Three matches, two of them with the same score, handed over out of order
C2_Witness ==
    /\ rk_pc = "returned"
    /\ Len(rk_ranked) = 3
    /\ rk_ranked # rk_matches
    /\ rk_ranked[2].overall_score = rk_ranked[3].overall_score
    /\ rk_ranked[1].overall_score > rk_ranked[2].overall_score

\* C3: among results with equal overall_score the higher skills score comes
\* first, and results equal on both come in ascending job_id.
C3_TieBreak ==
    rk_pc = "returned" =>
        \A i, j \in 1..Len(rk_ranked) :
            (i < j /\ rk_ranked[i].overall_score = rk_ranked[j].overall_score) =>
                \/ rk_ranked[i].skills_match_score > rk_ranked[j].skills_match_score
                \/ /\ rk_ranked[i].skills_match_score = rk_ranked[j].skills_match_score
                   /\ rk_ranked[i].job_id < rk_ranked[j].job_id

\* The weights rank_matches is to use: the custom map, the default for a
\* key it lacks, the default map when none is given
WeightUsed(key) ==
    IF key \in DOMAIN rk_weights THEN rk_weights[key] ELSE DefaultWeights[key]

\* C6: overall_score is the weighted sum of the four sub-scores, clamped to
\* [0,100]; weights 0.5/0.3/0.1/0.1 and sub-scores 80/60/100/50 give 73.
C6_WeightedSum ==
    rk_pc = "returned" =>
        \A i \in 1..Len(rk_ranked) :
            LET m == rk_ranked[i]
                \* in hundredths of a unit
                sum == WeightUsed("skills") * m.skills_match_score
                       + WeightUsed("experience") * m.experience_match_score
                       + WeightUsed("education") * m.education_match_score
                       + WeightUsed("semantic") * m.semantic_similarity_score
            IN  /\ sum < 0 => m.overall_score = 0
                /\ sum > 100 * (100 * Unit) => m.overall_score = 100 * Unit
                /\ (sum >= 0 /\ sum <= 100 * (100 * Unit)) =>
                        100 * m.overall_score = sum
                /\ (/\ rk_weights = WeightPool[2]
                    /\ m.skills_match_score = 80 * Unit
                    /\ m.experience_match_score = 60 * Unit
                    /\ m.education_match_score = 100 * Unit
                    /\ m.semantic_similarity_score = 50 * Unit)
                   => m.overall_score = 73 * Unit

\* The scenario of the claim, ranked
C6_Witness ==
    /\ rk_pc = "returned"
    /\ rk_weights = WeightPool[2]
    /\ \E i \in 1..Len(rk_ranked) :
        /\ rk_ranked[i].skills_match_score = 80 * Unit
        /\ rk_ranked[i].experience_match_score = 60 * Unit
        /\ rk_ranked[i].education_match_score = 100 * Unit
        /\ rk_ranked[i].semantic_similarity_score = 50 * Unit
        /\ rk_ranked[i].overall_score = 73 * Unit

----------------------------------------------------------------------------
(* Claims about JobMatcher.match_resume_to_jobs (Spec) *)

\* The positions of ranked_matches whose score is at least bar
AtLeast(bar) ==
    {i \in 1..Len(ranked_matches) : ranked_matches[i].overall_score >= bar}

\* Whether result is the first top_k of the matches of ranked_matches that
\* score at least bar, in the order of ranked_matches
FirstTopKAtLeast(bar) ==
    /\ Len(result) = Min(top_k, Cardinality(AtLeast(bar)))
    /\ \A n \in 1..Len(result) :
        \E i \in AtLeast(bar) :
            /\ Cardinality({j \in AtLeast(bar) : j < i}) = n - 1
            /\ result[n] = ranked_matches[i]

\* The scenario of claim C1 but for its threshold: resume 1 against jobs 1,
\* 2 and 3 (90, 73 and 40 under the weights 0.5/0.3/0.1/0.1), top_k 2, every
\* embedding call answered
C1_Scenario ==
    /\ pc = "done"
    /\ resume.resume_id = 1
    /\ Len(jobs) = 3
    /\ {jobs[i].job_id : i \in 1..Len(jobs)} = {1, 2, 3}
    /\ config.weights = WeightPool[2]
    /\ top_k = 2
    /\ failed_calls = {}

Scores(ms) == [i \in 1..Len(ms) |-> ms[i].overall_score]

RECURSIVE SumOver(_, _)
SumOver(w, keys) ==
    IF keys = {} THEN 0
    ELSE LET k == CHOOSE x \in keys : TRUE
         IN  w[k] + SumOver(w, keys \ {k})

InvalidWeights(w) ==
    \/ \E k \in DOMAIN w : w[k] < 0
    \/ SumOver(w, DOMAIN w) # 100

\* C4: with weights that are negative or do not sum to 1 the call is
\* rejected before any ranking: it ranks nothing and returns no result.
C4_InvalidWeightsRejected ==
    (InvalidWeights(config.weights) /\ jobs # <<>>) =>
        pc \notin {"filter", "truncate", "done"}

\* C5: when an embedding call fails the whole call fails: no zero vector
\* stands in for the embedding and no list of results is returned.
C5_EmbeddingFailureFailsCall ==
    /\ (0 \in failed_calls) => resume_embedding # Zeros
    /\ \A i \in failed_calls \ {0} : job_embeddings[i] # Zeros
    /\ failed_calls # {} => pc # "done"

InScoreRange(x) == 0 <= x /\ x <= 100 * Unit

\* C7: every MatchResult returned has its overall, skills, experience,
\* education, semantic and location scores within [0, 100].
C7_ScoresInRange ==
    pc = "done" =>
        \A i \in 1..Len(result) :
            /\ InScoreRange(result[i].overall_score)
            /\ InScoreRange(result[i].skills_match_score)
            /\ InScoreRange(result[i].experience_match_score)
            /\ InScoreRange(result[i].education_match_score)
            /\ InScoreRange(result[i].semantic_similarity_score)
            /\ InScoreRange(result[i].location_match_score)

\* A returned match whose weighted sum is above 100 (weights summing to 4)
\* and whose embeddings point in opposite directions (cosine -1)
C7_Witness ==
    /\ pc = "done"
    /\ config.weights = WeightPool[4]
    /\ failed_calls = {}
    /\ \E i \in 1..Len(result) :
        /\ result[i].job_id = 1
        /\ result[i].resume_id = 1
        /\ result[i].overall_score = 100 * Unit
        /\ result[i].semantic_similarity_score = 0

----------------------------------------------------------------------------
(* Claims about the scores as floats (SpecFloat) *)

\* C8: once ranking has recomputed overall_score, confidence_level is the
\* bucket of that final score: "Very High" from 85, "High" from 75,
\* "Medium" from 60, "Low" below.
C8_ConfidenceOfFinalScore ==
    fl_pc = "ranked" =>
        fl_match.confidence_level =
            (IF FGe(fl_match.overall_score, FromRatio(85, 1)) THEN "Very High"
             ELSE IF FGe(fl_match.overall_score, FromRatio(75, 1)) THEN "High"
             ELSE IF FGe(fl_match.overall_score, FromRatio(60, 1)) THEN "Medium"
             ELSE "Low")

----------------------------------------------------------------------------
(* More claims about the skill functions (SpecSkills) *)

\* Where a skill first appears, ignoring case, in the required-skill list
FirstRequired(skill) ==
    CHOOSE i \in 1..Len(sk_in.required_skills) :
        /\ StrLower(sk_in.required_skills[i]) = StrLower(skill)
        /\ \A j \in 1..(i - 1) :
            StrLower(sk_in.required_skills[j]) # StrLower(skill)

InRequiredOrder(skills) ==
    \A i, j \in 1..Len(skills) :
        i < j => FirstRequired(skills[i]) < FirstRequired(skills[j])

\* C11: matched_skills and missing_skills list their skills in the order in
\* which the skills appear in the job's required-skill list.
C11_RequiredOrder ==
    sk_out.called =>
        /\ InRequiredOrder(sk_out.matched)
        /\ InRequiredOrder(sk_out.missing)

----------------------------------------------------------------------------
(* Claims about the experience and education scorers (SpecScorers) *)

\* C12: with candidate years taken as 2.5 times the number of experience
\* entries, the experience score is 1.0 without a requirement, else 1.0 if
\* the years reach the requirement, 0.8 if they reach 0.7 of it, 0.6 if they
\* reach half of it, else 0.4.
C12_ExperienceSteps ==
    (sc_out.called /\ sc_in.scorer = "experience") =>
        LET twice_years == 5 * sc_in.resume.experience
            required == sc_in.job.experience_required.years
        IN  sc_out.score =
                IF ~sc_in.job.experience_required.present THEN Unit
                ELSE IF twice_years >= 2 * required THEN Unit
                ELSE IF 10 * twice_years >= 14 * required
                     THEN (8 * Unit) \div 10
                ELSE IF twice_years >= required THEN (6 * Unit) \div 10
                ELSE (4 * Unit) \div 10

\* The highest level on the scale of degree_levels that a set of degree
\* texts names; 0 when none is named
HighestLevel(texts) ==
    LET levels == {DegreeLevel(k) : k \in UNION texts}
    IN  IF levels = {} THEN 0 ELSE CHOOSE l \in levels : \A m \in levels : m <= l

CandidateLevel(education) == HighestLevel(Range(education))

\* The education score of the resume and job of sc_in with another
\* education list, and with another required text
ScoreWithEducation(education) ==
    CalculateEducationMatch([sc_in.resume EXCEPT !.education = education],
                            sc_in.job)

ScoreWithRequired(text) ==
    CalculateEducationMatch(sc_in.resume,
                            [sc_in.job EXCEPT !.education_required = Degree(text)])

\* C13: the education score is 1.0 without a requirement, 0.5 for a
\* candidate without education records, 1.0 if the candidate's highest
\* level reaches the required one, 0.7 if it is one level below, else 0.5;
\* it never falls when the candidate's level rises and never rises when the
\* required level rises.
C13_EducationScore ==
    (sc_out.called /\ sc_in.scorer = "education") =>
        LET candidate == CandidateLevel(sc_in.resume.education)
            required == HighestLevel({sc_in.job.education_required.keys})
        IN  /\ sc_out.score =
                    IF sc_in.job.education_required.kind = "absent" THEN Unit
                    ELSE IF sc_in.resume.education = <<>> THEN Unit \div 2
                    ELSE IF candidate >= required THEN Unit
                    ELSE IF candidate = required - 1 THEN (7 * Unit) \div 10
                    ELSE Unit \div 2
            /\ \A education \in EducationLists :
                CandidateLevel(education) > candidate =>
                    ScoreWithEducation(education) >= sc_out.score
            /\ sc_in.job.education_required.kind = "text" =>
                \A text \in DegreeTexts :
                    HighestLevel({text}) > required =>
                        ScoreWithRequired(text) <= sc_out.score

\* A bachelor measured against a text that names a master's and a
\* bachelor's degree: one level below
C13_Witness ==
    /\ sc_out.called
    /\ sc_in.scorer = "education"
    /\ sc_in.resume.education = <<{"bachelor"}>>
    /\ sc_in.job.education_required = Degree({"master", "bachelor"})
    /\ sc_out.score = (7 * Unit) \div 10

----------------------------------------------------------------------------
(* More claims about JobMatcher.match_resume_to_jobs (Spec) *)

\* The position in jobs of the job a match is for
JobIndex(match) == CHOOSE i \in 1..Len(jobs) : jobs[i].job_id = match.job_id

\* C14: an empty text embeds to the zero vector, and a similarity with a
\* zero vector is the score 0: a resume without embeddable text has
\* semantic_similarity_score 0 against every job, and every job is still
\* scored.
C14_ZeroVectorScoresZero ==
    /\ (ResumeTextEmpty(resume) /\ pc \notin {"start", "embed_resume"}) =>
            resume_embedding = Zeros
    /\ \A i \in 1..Len(matches) :
        (resume_embedding = Zeros \/ job_embeddings[JobIndex(matches[i])] = Zeros)
            => matches[i].semantic_similarity_score = 0
    /\ (ResumeTextEmpty(resume) /\ pc \in {"rank", "filter", "truncate", "done"}) =>
            Len(matches) = Cardinality({i \in 1..Len(jobs) :
                ~CalculateMatchRaises(resume, jobs[i], config.weights)})

\* A resume without text matched against three jobs, all returned with
\* semantic score 0
C14_Witness ==
    /\ pc = "done"
    /\ ResumeTextEmpty(resume)
    /\ failed_calls = {}
    /\ Len(jobs) = 3
    /\ Len(matches) = 3
    /\ result # <<>>
    /\ \A i \in 1..Len(result) : result[i].semantic_similarity_score = 0

\* The positions in jobs of the jobs whose scoring does not raise
Scorable(i) == ~CalculateMatchRaises(resume, jobs[i], config.weights)
ScorableJobs == SelectSeq([i \in 1..Len(jobs) |-> i], Scorable)

\* What the call makes of job i once scored and ranked, for some order of
\* iteration of its matched skills
IsMatchOfJob(match, i) ==
    \E order \in SetOrders(MatchedKeys(resume.skills, jobs[i].required_skills)) :
        LET m == CalculateMatch(resume, resume_embedding, jobs[i],
                                job_embeddings[i], config.weights, order)
        IN  match = [m EXCEPT !.overall_score =
                        CalculateWeightedScore(m, GetWeights(config.weights))]

\* C20: a job whose scoring raises does not abort the call and is left out
\* of the ranking; the result is what the same call on the remaining jobs
\* gives: their matches, ranked, cut by the threshold and by top_k.
C20_ScoringErrorIsolated ==
    (pc = "done" /\ jobs # <<>>) =>
        /\ Len(matches) = Len(ScorableJobs)
        /\ \A n \in 1..Len(matches) : IsMatchOfJob(matches[n], ScorableJobs[n])
        /\ result = Slice(FilterByThreshold(SortedByScore(matches),
                                            config.similarity_threshold),
                          top_k)

\* Three jobs, the first of which raises; the other two are returned
C20_Witness ==
    /\ pc = "done"
    /\ Len(jobs) = 3
    /\ ScorableJobs = <<2, 3>>
    /\ Len(result) = 2
    /\ {result[i].job_id : i \in 1..2} = {jobs[2].job_id, jobs[3].job_id}

----------------------------------------------------------------------------
(* Claims about Encoder (SpecEncoder) *)

\* C15: a text encodes to the same vector whatever else is in its batch,
\* whatever was encoded before, and whichever Encoder instance encodes it.
C15_EncodeDeterministic ==
    \A a, b \in en_seen : a.text = b.text => a.vec = b.vec

----------------------------------------------------------------------------
(* Claims about VectorStore and faiss_index (SpecStore) *)

\* The id of a hit, as a set of none or one: the metadata VectorStore.search
\* returns with it, or the entry of index_obj["ids"] at the position
\* faiss_index.search returns
HitIds(hit) ==
    IF "metadata" \in DOMAIN hit.item
    THEN {hit.item.metadata} \cap MetadataPool
    ELSE IF st_backend # "VectorStore" /\ hit.item.idx < Len(st_metadata)
    THEN {st_metadata[hit.item.idx + 1]}
    ELSE {}

\* C16: the store holds at most one entry per id, and a search never
\* returns the same id twice.
C16_OneEntryPerId ==
    /\ \A i, j \in 1..Len(st_metadata) :
        (i # j /\ st_metadata[i] \in MetadataPool)
            => st_metadata[i] # st_metadata[j]
    /\ \A i, j \in 1..Len(st_hits) :
        i # j => HitIds(st_hits[i]) \cap HitIds(st_hits[j]) = {}

\* The ids in ascending order
AscendingIds == <<"a", "b">>

IdLeq(x, y) ==
    \E i, j \in 1..Len(AscendingIds) :
        AscendingIds[i] = x /\ AscendingIds[j] = y /\ i <= j

\* The hits of the last search are at most k and their similarities
\* descend
SortedHits ==
    /\ Len(st_hits) <= st_op.k
    /\ \A i, j \in 1..Len(st_hits) :
        i < j => st_hits[i].similarity >= st_hits[j].similarity

\* C17: search returns at most k hits, by similarity descending, and hits
\* of equal similarity by ascending id.
C17_SearchOrder ==
    st_op.call = "search" =>
        /\ SortedHits
        /\ \A i, j \in 1..Len(st_hits) :
            (i < j /\ st_hits[i].similarity = st_hits[j].similarity)
                => \A x \in HitIds(st_hits[i]), y \in HitIds(st_hits[j]) :
                        IdLeq(x, y)

\* What every search of the pools returns on a store, or on an index
\* object with its ids
AllSearches(index, metadata) ==
    [query_vector \in QueryPool \cup VectorPool, k \in 1..MaxK |->
        IF st_backend = "VectorStore"
        THEN SearchStore(index, metadata, query_vector, k, st_tie)
        ELSE [hits |-> SearchIndex(index, NormalizeVectors(query_vector), k,
                                   st_tie),
              ids |-> metadata]]

\* C18: a store loaded from the files that save wrote answers every search
\* as the store did when it was saved, and an index object loaded from
\* the files that build_index wrote answers it as the embeddings and ids
\* given to build_index do: the same ids in the same order with the same
\* similarities.
C18_SaveLoadRoundTrip ==
    (st_op.call \in {"load", "load_index"} /\ st_saved # <<>>) =>
        AllSearches(st_index, st_metadata)
            = AllSearches(st_saved[1].index, st_saved[1].metadata)

C18_Witness ==
    /\ st_op.call = "load"
    /\ st_saved # <<>>
    /\ st_saved[1].metadata = <<"b", "a">>
    /\ Len(st_saved[1].index.vectors) = 2
    /\ st_index.vectors[1] # st_index.vectors[2]

\* C19: a load that fails leaves the store's index, metadata and dimension
\* as they were, and a load whose files disagree on the dimension fails.
C19_LoadRefusesBadIndex ==
    [][/\ LoadRaises => UNCHANGED <<st_index, st_metadata, st_dimension>>
       /\ Load => st_files.metadata.dimension = st_files.faiss.d]_vars

----------------------------------------------------------------------------
(* Further claims about match_resume_to_jobs (Spec) *)

\* The job with the other value of its remote flag
OtherRemote(job) == [job EXCEPT !.remote = ~job.remote]

\* What _calculate_match gives for the job of matches[i] once its remote
\* flag is flipped: the same resume, embeddings and weights, and the set
\* order that gave matches[i] its matched_skills
MatchOfOtherRemote(i) ==
    LET p == CHOOSE q \in 1..Len(jobs) : jobs[q].job_id = matches[i].job_id
        keys == MatchedKeys(resume.skills, jobs[p].required_skills)
        order == CHOOSE o \in SetOrders(keys) :
                    GetMatchedSkills(resume.skills, jobs[p].required_skills, o)
                        = matches[i].matched_skills
    IN  CalculateMatch(resume, resume_embedding, OtherRemote(jobs[p]),
                       job_embeddings[p], config.weights, order)

\* Whether two MatchResults agree in every field but location_match_score
SameButLocation(a, b) ==
    /\ a.location_match_score # b.location_match_score
    /\ [a EXCEPT !.location_match_score = 0]
         = [b EXCEPT !.location_match_score = 0]

\* C30: the remote flag of a job changes nothing but location_match_score:
\* with the flag of every job flipped each match has, once the scoring loop
\* is through, the same overall_score, confidence_level and other fields,
\* and the list rank_matches returns has the same jobs at the same ranks
\* with the same scores.
C30_RemoteOnlyReported ==
    LET other == [i \in 1..Len(matches) |-> MatchOfOtherRemote(i)]
        ranked == RankMatches(other, config.weights)
    IN  /\ pc = "rank" =>
            \A i \in 1..Len(matches) :
                /\ SameButLocation(other[i], matches[i])
                /\ matches[i].location_match_score
                     \in {80 * Unit, 100 * Unit}
        /\ pc = "filter" =>
            /\ Len(ranked) = Len(ranked_matches)
            /\ \A i \in 1..Len(ranked) :
                SameButLocation(ranked[i], ranked_matches[i])

\* A call returned two matches, the one of a job that is not remote ranked
\* above the one of a remote job
C30_Witness ==
    /\ pc = "done"
    /\ Len(result) = 2
    /\ result[1].location_match_score = 80 * Unit
    /\ result[2].location_match_score = 100 * Unit
    /\ result[1].overall_score > result[2].overall_score

\* The stages of match_resume_to_jobs in the order of its code
StageOrder ==
    <<"start", "embed_resume", "embed_jobs", "score", "rank", "filter",
      "truncate", "done">>

StageOf(p) == CHOOSE n \in 1..Len(StageOrder) : StageOrder[n] = p

\* What each stage finds done and not yet begun
StageInv ==
    /\ StageOf(pc) <= StageOf("embed_resume") =>
            resume_embedding = Zeros /\ failed_calls = {}
    /\ StageOf(pc) <= StageOf("embed_resume") => job_embeddings = <<>>
    /\ StageOf(pc) <= StageOf("embed_jobs") => idx = 0 /\ matches = <<>>
    /\ pc = "score" => Len(job_embeddings) = Len(jobs) /\ idx < Len(jobs)
    /\ StageOf(pc) <= StageOf("score") => ranked_matches = <<>>
    /\ (pc = "rank" \/ (StageOf(pc) > StageOf("rank") /\ jobs # <<>>)) =>
            Len(job_embeddings) = Len(jobs) /\ idx = Len(jobs)
    /\ StageOf(pc) <= StageOf("rank") => filtered_matches = <<>>
    /\ StageOf(pc) <= StageOf("truncate") => result = <<>>

\* A step stays in a loop stage and takes the loop's next job, moves to the
\* next stage, or is the return of [] for an empty job list
StageStep ==
    \/ /\ pc' = pc
       /\ \/ pc = "embed_jobs" /\ Len(job_embeddings') = Len(job_embeddings) + 1
          \/ pc = "score" /\ idx' = idx + 1
    \/ StageOf(pc') = StageOf(pc) + 1 /\ jobs # <<>>
    \/ pc = "start" /\ jobs = <<>> /\ pc' = "done"

\* Whether the call can take a step.  The ranking stage has no condition
\* but its place in the code, so it can whenever the call is in it.
CanStep ==
    \/ pc = "rank"
    \/ ENABLED (ReturnEmpty \/ Start \/ EmbedResume \/ EmbedJob \/ ScoreJob
                \/ ScoreJobError \/ Filter \/ Truncate)

\* C25: a call passes through its stages in the order EmbedCandidate,
\* EmbedJobs, ScoreAll, Rank, Filter, Truncate, each stage finding the
\* earlier ones complete and the later ones not begun; a loop stage takes
\* one more job with every step, and a call that has not returned can take
\* a step, so that every call returns.
C25_StagesInOrder ==
    /\ [](StageInv /\ (pc = "done" \/ CanStep))
    /\ [][StageStep]_vars

\* A call on three jobs that ranked three matches, kept two of them and
\* returned one
C25_Witness ==
    /\ pc = "done"
    /\ Len(job_embeddings) = 3
    /\ Len(ranked_matches) = 3
    /\ Len(filtered_matches) = 2
    /\ Len(result) = 1

\* C22: a call with jobs and a top_k of 0 or below never returns a result
\* list (top_k holds the argument, or config.top_k once that replaced it).
C22_NonPositiveTopKRejected ==
    (pc = "done" /\ jobs # <<>>) => top_k > 0

----------------------------------------------------------------------------
(* Further claims about RankingAlgorithm (SpecRank) *)

\* C24: no call of rank_matches or get_top_k changes a field of a
\* MatchResult it was handed.
C24_MatchesNeverModified ==
    [][rk_matches' = rk_matches]_vars

\* C26: the list get_top_k(matches, k, threshold) returns has at most k
\* matches, sorted by overall_score descending, each with an overall_score
\* of at least threshold.
C26_TopKAtLeastThreshold ==
    rk_pc = "top_k returned" =>
        /\ Len(rk_top) <= rk_args.k
        /\ \A i \in 1..(Len(rk_top) - 1) :
            rk_top[i].overall_score >= rk_top[i + 1].overall_score
        /\ \A i \in 1..Len(rk_top) :
            rk_top[i].overall_score >= rk_args.threshold

----------------------------------------------------------------------------
(* Further claims about VectorStore (SpecStore) *)

\* C28: after add_vectors the metadata list has exactly one entry per stored
\* vector.
C28_OneMetadataPerVector ==
    (st_backend = "VectorStore" /\ st_op.call = "add_vectors") =>
        Len(st_metadata) = Len(st_index.vectors)

\* C29: search reports similarity 0 for every hit whose stored vector is
\* the zero vector, and for every hit of a zero query.
C29_ZeroVectorSimilarityZero ==
    (st_backend = "VectorStore" /\ st_op.call = "search") =>
        LET query == NormalizeVectors(st_op.query_vector)
            indices == IndexSearch(st_index, query, st_op.k, st_tie)
        IN  \A r \in 1..Len(st_hits) :
                (\/ st_index.vectors[indices[r] + 1] = <<0, 0>>
                 \/ query = <<0, 0>>) => st_hits[r].similarity = 0

----------------------------------------------------------------------------
(* Claims about simple_score (SpecSimple) *)

\* The words of a text: its longest runs of letters, in lower case
TextWords(s) ==
    LET Letter(c) == c \in {65, 97, 119}
    IN  {StrLower(SubSeq(s, i, j)) : <<i, j>> \in
            {ij \in (1..Len(s)) \X (1..Len(s)) :
                /\ ij[1] <= ij[2]
                /\ \A n \in ij[1]..ij[2] : Letter(s[n])
                /\ ij[1] = 1 \/ ~Letter(s[ij[1] - 1])
                /\ ij[2] = Len(s) \/ ~Letter(s[ij[2] + 1])}}

\* C27: the score of simple_score is the fraction of the distinct words of
\* jd_text that occur in raw_text, within [0, 1]; it is 1 when jd_text has a
\* word and raw_text has every word of it, as in /analyze with jd_text only;
\* the reason no_jd_text comes only for a jd_text without words.
C27_FractionOfJdWords ==
    (ss_out.call # "none" /\ "score" \in DOMAIN ss_out) =>
        LET jd == TextWords(ss_in.jd_text)
            have == TextWords(ss_out.record.raw_text)
        IN  /\ ss_out.score \in 0..SimpleUnit
            /\ jd # {} =>
                ss_out.score * Cardinality(jd)
                    = SimpleUnit * Cardinality(jd \cap have)
            /\ (jd # {} /\ jd \subseteq have) => ss_out.score = SimpleUnit
            /\ "reason" \in DOMAIN ss_out.explain => jd = {}

----------------------------------------------------------------------------
(* Claims about two calls of match_resume_to_jobs (SpecTwo) *)

\* C21: two calls with the same resume, jobs and config, in which no
\* embedding call failed, return the same list: the same jobs in the same
\* order, every field of every MatchResult the same.
C21_IdenticalResults ==
    (/\ \A i \in Calls : tw_inv[i].pc = "done"
     /\ tw_resume[1] = tw_resume[2]
     /\ tw_failed = 0) =>
        tw_inv[1].result = tw_inv[2].result

\* The positions, among the jobs call i has gone through, of those
\* _calculate_match returns a match for
TwoScored(i) ==
    LET Returns(n) == ~CalculateMatchRaises(tw_resume[i], tw_jobs[n],
                                            tw_matcher.config.weights)
    IN  SelectSeq([n \in 1..tw_inv[i].idx |-> n], Returns)

\* The matches call i builds when it runs alone and is given the
\* embeddings, ids and times it was given here
TwoAlone(i) ==
    LET scored == TwoScored(i)
    IN  [k \in 1..Len(scored) |->
            TwoMatch(i, scored[k], tw_inv[i].matches[k].match_id,
                     tw_inv[i].matches[k].matched_date)]

\* C23: under every interleaving of two calls each call has the matches,
\* the ranking and the result it has when it runs alone, and the JobMatcher
\* they share keeps the attributes it was built with.
C23_CallsDoNotInterfere ==
    /\ tw_matcher = TwoMatcher
    /\ \A i \in Calls :
        /\ Len(tw_inv[i].matches) = Len(TwoScored(i))
        /\ Len(tw_inv[i].matches) = Len(TwoScored(i)) =>
            LET ranked == RankMatches(TwoAlone(i), tw_matcher.config.weights)
                filtered == FilterByThreshold(ranked,
                                tw_matcher.config.similarity_threshold)
            IN  IF tw_inv[i].pc = "done"
                THEN /\ tw_inv[i].ranked_matches = ranked
                     /\ tw_inv[i].result =
                            Slice(filtered, tw_matcher.config.top_k)
                ELSE /\ tw_inv[i].matches = TwoAlone(i)
                     /\ tw_inv[i].result = <<>>

\* Two calls for different resumes have returned, each with two matches,
\* the first match of each built before the second match of the other
C23_Witness ==
    /\ tw_resume[1] # tw_resume[2]
    /\ \A i \in Calls :
        /\ tw_inv[i].pc = "done"
        /\ Len(tw_inv[i].ranked_matches) = 2
        /\ tw_inv[i].matches[1].matched_date = 0
        /\ tw_inv[i].matches[2].matched_date = 1
    /\ tw_inv[1].result # <<>>

====
